---- MODULE Spec2Model ----
(***************************************************************************)
(* Chameleon: a MAC address changer.  One invocation of the controller     *)
(* (src/src/main.rs, main) on one host, with the orchestrator              *)
(* (src/src/platform.rs, change_mac) stepped one facade operation at a     *)
(* time.  Text is modelled as sequences of one-character strings so that   *)
(* case and separators are real.                                           *)
(***************************************************************************)
EXTENDS Integers, Sequences, FiniteSets, TLC

(***************************************************************************)
(* Bounds of the model                                                     *)
(***************************************************************************)
\* how many distinct stderr texts a failing command may print
MaxErrTexts == 1
\* how many distinct values the random source may deliver per draw
MaxRngDraws == 2
\* the rule store holds at most this many rules
MaxRules == 2
\* how many invocations of the tool follow one another on a host
MaxInvocations == 2

(***************************************************************************)
(* Text                                                                    *)
(***************************************************************************)
None == <<>>

HexLower == <<"0","1","2","3","4","5","6","7","8","9","a","b","c","d","e","f">>
HexUpper == <<"0","1","2","3","4","5","6","7","8","9","A","B","C","D","E","F">>

IsHexChar(c) == \E i \in 1..16 : c = HexLower[i] \/ c = HexUpper[i]

LowerAlpha == <<"a","b","c","d","e","f","g","h","i","j","k","l","m",
                "n","o","p","q","r","s","t","u","v","w","x","y","z">>
UpperAlpha == <<"A","B","C","D","E","F","G","H","I","J","K","L","M",
                "N","O","P","Q","R","S","T","U","V","W","X","Y","Z">>

\* char::to_lowercase / to_uppercase on the characters the texts here hold
ToLowerCh(c) == IF \E i \in 1..26 : c = UpperAlpha[i]
                THEN LowerAlpha[CHOOSE i \in 1..26 : c = UpperAlpha[i]]
                ELSE c
ToUpperCh(c) == IF \E i \in 1..26 : c = LowerAlpha[i]
                THEN UpperAlpha[CHOOSE i \in 1..26 : c = LowerAlpha[i]]
                ELSE c

to_lowercase(s) == [i \in 1..Len(s) |-> ToLowerCh(s[i])]
to_uppercase(s) == [i \in 1..Len(s) |-> ToUpperCh(s[i])]

\* str::replace(from, to) for a one-character pattern; to is a text
RECURSIVE replace(_, _, _)
replace(s, from, to) ==
    IF s = <<>> THEN <<>>
    ELSE (IF Head(s) = from THEN to ELSE <<Head(s)>>) \o replace(Tail(s), from, to)

\* {:02x} of one byte
Hex2(b) == <<HexLower[(b \div 16) + 1], HexLower[(b % 16) + 1]>>

\* value of one hex digit, as u8::from_str_radix(_, 16) reads it
HexVal(c) == CHOOSE v \in 0..15 : c = HexLower[v + 1] \/ c = HexUpper[v + 1]

\* the six bytes a 12-hex-digit text denotes
BytesOfClean(t) == [i \in 1..6 |-> 16 * HexVal(t[2 * i - 1]) + HexVal(t[2 * i])]

\* the bytes the operating system takes from an address text: separators dropped
BytesOfText(t) == BytesOfClean(replace(replace(replace(t, ":", <<>>), "-", <<>>), ".", <<>>))

\* six two-digit groups joined by a separator text
Joined(bytes, sep, upper) ==
    LET g(i) == IF upper THEN to_uppercase(Hex2(bytes[i])) ELSE Hex2(bytes[i])
    IN  g(1) \o sep \o g(2) \o sep \o g(3) \o sep \o g(4) \o sep \o g(5) \o sep \o g(6)

(***************************************************************************)
(* MacAddress (mac.rs)                                                     *)
(***************************************************************************)
MacAddress_new(bytes, format) == [bytes |-> bytes, format |-> format]

\* mutant: {:x} in place of {:02x}
as_string_Unpadded(m) ==
    LET g(i) == IF m.bytes[i] < 16 THEN <<HexLower[m.bytes[i] + 1]>> ELSE Hex2(m.bytes[i])
        sep == CASE m.format = "Colon" -> <<":">> [] m.format = "Hyphen" -> <<"-">>
                 [] m.format = "Dot" -> <<".">> [] OTHER -> <<>>
    IN  g(1) \o sep \o g(2) \o sep \o g(3) \o sep \o g(4) \o sep \o g(5) \o sep \o g(6)

\* mutant: the format tag is ignored
as_string_AlwaysColon(m) == Joined(m.bytes, <<":">>, FALSE)

as_string(m) ==
    CASE m.format = "Colon"  -> Joined(m.bytes, <<":">>, FALSE)
      [] m.format = "Hyphen" -> Joined(m.bytes, <<"-">>, FALSE)
      [] m.format = "Dot"    -> Joined(m.bytes, <<".">>, FALSE)
      [] OTHER               -> Joined(m.bytes, <<>>, FALSE)

\* a character of two UTF-8 bytes, and its two bytes
TwoByteChar == "U+00E9"
LeadByte == "0xC3"
ContinuationByte == "0xA9"

\* the UTF-8 bytes of a text: str::len and slicing count these
RECURSIVE Utf8(_)
Utf8(s) ==
    IF s = <<>> THEN <<>>
    ELSE (IF Head(s) = TwoByteChar THEN <<LeadByte, ContinuationByte>> ELSE <<Head(s)>>)
         \o Utf8(Tail(s))

\* &clean_mac[i * 2..(i + 1) * 2] panics unless both ends are char boundaries
SliceOk(b, i) ==
    /\ b[2 * i + 1] # ContinuationByte
    /\ (2 * i + 3 <= Len(b) => b[2 * i + 3] # ContinuationByte)

\* u8::from_str_radix(pair, 16) of a two-byte slice: one leading '+' is
\* taken as a sign; -1 stands for the ParseIntError
from_str_radix(pair) ==
    IF pair[1] = "+"
    THEN IF IsHexChar(pair[2]) THEN HexVal(pair[2]) ELSE -1
    ELSE IF IsHexChar(pair[1]) /\ IsHexChar(pair[2])
         THEN 16 * HexVal(pair[1]) + HexVal(pair[2])
         ELSE -1

contains(s, c) == \E i \in DOMAIN s : s[i] = c

NoMac == MacAddress_new(<<>>, "")
ParseOk(m) == [ok |-> TRUE, panicked |-> FALSE, err |-> "", mac |-> m]
ParseErr(kind) == [ok |-> FALSE, panicked |-> FALSE, err |-> kind, mac |-> NoMac]
ParsePanics == [ok |-> FALSE, panicked |-> TRUE, err |-> "", mac |-> NoMac]

\* MacAddress::parse; the pairs are converted in order and the first failure
\* ends the conversion
parse(mac_str) ==
    LET clean_mac == Utf8(replace(replace(replace(mac_str, ":", <<>>), "-", <<>>),
                                  ".", <<>>))
        pair(i) == SubSeq(clean_mac, 2 * i + 1, 2 * i + 2)
        bad(i) == ~SliceOk(clean_mac, i) \/ from_str_radix(pair(i)) < 0
    IN  IF Len(clean_mac) # 12 THEN ParseErr("InvalidFormat")
        ELSE IF \E i \in 0..5 : bad(i)
        THEN LET first == CHOOSE i \in 0..5 : bad(i) /\ \A j \in 0..(i - 1) : ~bad(j)
             IN  IF ~SliceOk(clean_mac, first) THEN ParsePanics ELSE ParseErr("ParseError")
        ELSE ParseOk(MacAddress_new(
                 [i \in 1..6 |-> from_str_radix(pair(i - 1))],
                 IF contains(mac_str, ":") THEN "Colon"
                 ELSE IF contains(mac_str, "-") THEN "Hyphen"
                 ELSE IF contains(mac_str, ".") THEN "Dot"
                 ELSE "Raw"))

\* the bytes "XX:XX:XX" or "XX-XX-XX" denotes (split on ':' or '-', take 3)
PrefixBytes(prefix) ==
    [i \in 1..3 |-> 16 * HexVal(prefix[3 * i - 2]) + HexVal(prefix[3 * i - 1])]

\* mutant: the first byte is taken as drawn
generate_random_mac_Unmasked(vendor_prefix, rnd) ==
    LET head == IF vendor_prefix # None THEN PrefixBytes(vendor_prefix)
                ELSE <<rnd[1], rnd[2], rnd[3]>>
    IN  MacAddress_new(head \o <<rnd[4], rnd[5], rnd[6]>>, "Colon")

\* rnd is the six bytes the random source delivers, in the order drawn
generate_random_mac(vendor_prefix, rnd) ==
    LET head == IF vendor_prefix # None
                THEN PrefixBytes(vendor_prefix)
                ELSE <<((rnd[1] \div 2) * 2) + (IF (rnd[1] \div 2) % 2 = 1 THEN 0 ELSE 2),
                       rnd[2], rnd[3]>>
    IN  MacAddress_new(head \o <<rnd[4], rnd[5], rnd[6]>>, "Colon")

(***************************************************************************)
(* Argument validation (main.rs, Cli::validate)                            *)
(***************************************************************************)
\* ^([0-9A-Fa-f]{2}[:-]){n-1}([0-9A-Fa-f]{2})$
HexGroups(t, n) ==
    /\ Len(t) = 3 * n - 1
    /\ \A i \in 1..Len(t) :
         IF i % 3 = 0 THEN t[i] \in {":", "-"} ELSE IsHexChar(t[i])

is_valid_mac_format(mac) == HexGroups(mac, 6)

is_valid_vendor_format(vendor) == HexGroups(vendor, 3)

\* Cli::validate returns Ok (clap has already enforced the option groups)
validate(c) ==
    /\ c.mac # None => is_valid_mac_format(c.mac)
    /\ c.vendor # None => is_valid_vendor_format(c.vendor)
    /\ (c.mode = "mac") = (c.mac # None)
    /\ c.vendor # None => c.mode = "random"
    /\ c.permanent => c.mode # "restore"

(***************************************************************************)
(* Filter (filter.rs)                                                      *)
(***************************************************************************)
is_allowed(f, mac) ==
    LET prefix == to_uppercase(SubSeq(mac, 1, 8))
    IN  IF f.whitelist # {} THEN prefix \in f.whitelist
        ELSE IF f.blacklist # {} THEN prefix \notin f.blacklist
        ELSE TRUE

(***************************************************************************)
(* Results and command outcomes                                            *)
(***************************************************************************)
\* texts a command prints are numbered; 0 is the empty text
OkRes == [kind |-> "Ok", from |-> "", text |-> 0, expected |-> None, got |-> None]
Err(kind, from, text) ==
    [kind |-> kind, from |-> from, text |-> text, expected |-> None, got |-> None]
Mismatch(expected, got) ==
    [kind |-> "ValidationFailed", from |-> "verify", text |-> 0,
     expected |-> expected, got |-> got]

\* what running a command can come to: it cannot be started, it exits
\* unsuccessfully having printed stderr/stdout, or it succeeds
CmdOutcomes ==
    {[st |-> "ok", stderr |-> 0, stdout |-> 0], [st |-> "spawn", stderr |-> 0, stdout |-> 0]}
    \cup {[st |-> "exit", stderr |-> e, stdout |-> o] : e \in 0..MaxErrTexts, o \in 0..1}

\* Command::output(): an io::Error when the child cannot be started
command_output(out) ==
    IF out.st = "spawn" THEN Err("IoError", "spawn", 0) ELSE OkRes

\* execute_command: the Result it returns for an outcome of the child process
execute_command(out) ==
    IF command_output(out).kind # "Ok" THEN command_output(out)
    ELSE IF out.st = "exit"
         THEN IF out.stderr # 0 THEN Err("SystemError", "stderr", out.stderr)
              ELSE IF out.stdout # 0 THEN Err("SystemError", "stdout", out.stdout)
              ELSE Err("SystemError", "unknown", 0)
         ELSE OkRes

(***************************************************************************)
(* Inputs                                                                  *)
(***************************************************************************)
FactoryBytes == <<0, 22, 62, 0, 0, 1>>
BytesA == <<2, 170, 187, 204, 221, 1>>
BytesB == <<0, 17, 34, 51, 68, 85>>

\* texts given as --mac: 02:AA:BB:CC:DD:01, 02-aa-bb-cc-dd-01,
\* 00:11:22:33:44:55 and 001122334455 (which validate rejects)
MacArgs == { Joined(BytesA, <<":">>, TRUE), Joined(BytesA, <<"-">>, FALSE),
             Joined(BytesB, <<":">>, FALSE), Joined(BytesB, <<>>, FALSE) }

PrefixA == <<"0","2",":","A","A",":","B","B">>
PrefixB == <<"0","0",":","1","1",":","2","2">>

\* the six bytes the random source delivers on its i-th possible draw
Draw(i) == [k \in 1..6 |-> (83 * i + 29 * k) % 256]
RngDraws == {Draw(i) : i \in 1..MaxRngDraws}

Clis ==
    { c \in [mode : {"random", "mac", "restore"}, mac : MacArgs \cup {None},
             permanent : BOOLEAN, vendor : {None, to_lowercase(PrefixB)},
             spoof_location : BOOLEAN, whitelist : {None, PrefixB},
             blacklist : {None}, history : BOOLEAN] :
        /\ validate(c)
        /\ c.spoof_location => c.mode = "random" /\ c.vendor = None
        /\ c.history => c.whitelist = None /\ c.mode = "mac" }
    \cup
    { [mode |-> "mac", mac |-> Joined(BytesB, <<":">>, FALSE), permanent |-> FALSE,
       vendor |-> None, spoof_location |-> FALSE, whitelist |-> w,
       blacklist |-> PrefixA, history |-> FALSE] : w \in {None, PrefixB} }

FilterFiles ==
    { [whitelist |-> {}, blacklist |-> {}], [whitelist |-> {}, blacklist |-> {PrefixA}],
      [whitelist |-> {PrefixB}, blacklist |-> {PrefixA}] }

Hosts ==
    { h \in [platform : {"linux", "windows"}, elevated : BOOLEAN,
             ifKind : {"absent", "loopback", "p2p", "ether"},
             ip_found : BOOLEAN, adapter : {"ok", "noadapter", "noreg"},
             geo : {None, PrefixB \o <<":","0","0",":","0","0",":","0","0">>}] :
        /\ h.platform = "linux" => h.adapter = "ok"
        \* the windows enumeration does not list the loopback pseudo-interface
        /\ h.platform = "windows" => h.ip_found /\ h.ifKind # "loopback" }

(***************************************************************************)
(* State                                                                   *)
(***************************************************************************)
VARIABLES
    host,        \* the host: platform, elevation, the named interface's kind, tools
    cli,         \* the parsed and validated arguments
    pc,          \* where main is
    cpc,         \* where change_mac is ("idle" outside a call)
    ret,         \* where main continues when change_mac returns Ok
    arg,         \* change_mac's arguments: [mac, permanent]
    attempt,     \* change_mac: link-down attempts made
    success,     \* change_mac: the loop's success flag
    last_error,  \* change_mac: the loop's last_error
    card,        \* main: the NetworkCard snapshot
    new_mac,     \* main: the target address text
    old_mac,     \* main: the address read for the history entry
    result,      \* main's outcome ("none" while running)
    cm_result,   \* what the last change_mac call returned
    iface,       \* the interface: [bytes, up]
    service,     \* the network-management service: "running" or "stopped"
    baseline,    \* the stored original address text, or None
    persisted,   \* the persistent artifact/setting: an address text, or None
    filter,      \* the filter file: [whitelist, blacklist]
    log,         \* the history log written by this invocation
    calls,       \* history: the change_mac calls made, in order
    ops,         \* history: the facade operations the current call issued, in order
    lastRes,     \* history: the Result of the operation issued last
    readBack,    \* history: the address text the verification of this call read
    inv,         \* the number of the invocation that is running
    rules,       \* RuleManager.rules: key text -> AppRule
    inserted,    \* history: the keys of the stored rules, in the order they came in
    applied,     \* the library operation applied last: [fn, in, out]
    argv,        \* history: the arguments as they were given
    store_file,  \* the rule file app_rules.json: key text -> AppRule
    managers,    \* the RuleManager of each process that uses the rule file
    racers       \* the change_mac calls that run at the same time

vars == <<host, cli, pc, cpc, ret, arg, attempt, success, last_error, card, new_mac,
          old_mac, result, cm_result, iface, service, baseline, persisted, filter,
          log, calls, ops, lastRes, readBack, inv, rules, inserted, applied, argv,
          store_file, managers, racers>>

mainVars == <<pc, card, new_mac, old_mac, result, baseline, filter, log>>
callVars == <<cpc, ret, arg, attempt, success, last_error, cm_result, calls, readBack>>
hostVars == <<iface, service, persisted>>
histVars == <<ops, lastRes>>
ruleVars == <<rules, inserted, applied>>
procVars == <<argv, store_file, managers, racers>>
extVars == <<inv, rules, inserted, applied, argv, store_file, managers, racers>>
ctlVars == <<host, cli, pc, cpc, ret, arg, attempt, success, last_error, card, new_mac,
             old_mac, result, cm_result, iface, service, baseline, persisted, filter,
             log, calls, ops, lastRes, readBack>>

\* no library operation applied yet; the empty rule map
NotApplied == [fn |-> "none", in |-> [none |-> TRUE], out |-> [none |-> TRUE]]
NoRules == [k \in {} |-> {}]

\* the processes that run side by side
Procs == {"p", "q"}

\* a process that has not built its RuleManager; no change_mac call running
NoManager == [started |-> FALSE, rules |-> NoRules, saved |-> FALSE]
NoRacer == [cpc |-> "idle", mac |-> None, readBack |-> None,
            result |-> [kind |-> "none", from |-> "", text |-> 0,
                        expected |-> None, got |-> None]]

NoCard == [supports_mac_change |-> FALSE, permanent_change_supported |-> FALSE]

Init ==
    /\ host \in Hosts
    /\ cli \in Clis
    /\ host.geo # None => cli.spoof_location
    /\ pc = "check_privileges"
    /\ cpc = "idle"
    /\ ret = "exit"
    /\ arg = [mac |-> None, permanent |-> FALSE]
    /\ attempt = 0
    /\ success = FALSE
    /\ last_error = OkRes
    /\ card = NoCard
    /\ new_mac = None
    /\ old_mac = None
    /\ result = [kind |-> "none", from |-> "", text |-> 0, expected |-> None, got |-> None]
    /\ cm_result = OkRes
    /\ iface = [bytes |-> FactoryBytes, up |-> TRUE]
    /\ service = "running"
    /\ baseline \in {None, Joined(FactoryBytes, <<":">>, FALSE)}
    /\ persisted = None
    /\ filter \in FilterFiles
    /\ log = <<>>
    /\ calls = <<>>
    /\ ops = <<>>
    /\ lastRes = OkRes
    /\ readBack = None
    /\ inv = 1
    /\ rules = NoRules
    /\ inserted = <<>>
    /\ applied = NotApplied
    /\ argv = cli
    /\ store_file = NoRules
    /\ managers = [p \in Procs |-> NoManager]
    /\ racers = [p \in Procs |-> NoRacer]

(***************************************************************************)
(* Reading the current address (network.rs, get_current_mac)               *)
(***************************************************************************)
\* the text the host reports for the interface's bytes: sysfs and ifconfig
\* print lower-case colon pairs, getmac prints upper-case hyphen pairs
CurrentText(h, bytes) ==
    IF h.platform = "windows" THEN Joined(bytes, <<"-">>, TRUE)
    ELSE Joined(bytes, <<":">>, FALSE)

ReadOutcomes == {"ok", "spawn", "exit", "nomac"}

\* get_current_mac: Ok (with CurrentText) or the error it returns
get_current_mac(out) ==
    CASE out = "ok"    -> OkRes
      [] out = "spawn" -> Err("IoError", "spawn", 0)
      [] out = "exit"  -> Err("SystemError", "stderr", 1)
      [] OTHER         -> Err("ValidationFailed", "nomac", 0)

(***************************************************************************)
(* The orchestrator (platform.rs, change_mac)                              *)
(***************************************************************************)
max_retries == 3

\* one issued facade operation and whether it took effect
Op(name, ok) == [op |-> name, ok |-> ok]

\* issuing an operation: it joins the call's history, and res is the Result
\* the orchestrator got for it
Issue(name, ok, res) ==
    /\ ops' = Append(ops, Op(name, ok))
    /\ lastRes' = res

\* main calls change_mac(interface, mac, permanent) and continues at cont
Call(mac, permanent, cont) ==
    /\ pc' = "in_change"
    /\ cpc' = "check_permissions"
    /\ ret' = cont
    /\ arg' = [mac |-> mac, permanent |-> permanent]
    /\ attempt' = 0
    /\ success' = FALSE
    /\ last_error' = OkRes
    /\ readBack' = None
    /\ ops' = <<>>
    /\ lastRes' = OkRes
    /\ calls' = Append(calls, [mac |-> mac, permanent |-> permanent,
                               allowed |-> is_allowed(filter, mac), at |-> pc])
    /\ UNCHANGED cm_result

\* change_mac returns res; main's `?` ends the invocation on an error
Return(res) ==
    /\ cpc' = "idle"
    /\ cm_result' = res
    /\ pc' = IF res.kind = "Ok" THEN ret ELSE "exit"
    /\ result' = IF res.kind = "Ok" THEN result ELSE res

\* change_mac moves on to its next step
Goto(step) ==
    /\ cpc' = step
    /\ UNCHANGED <<pc, result, cm_result>>

\* mutant: the error of a step is dropped and the call goes on
Try_Swallow(res, next) == Goto(next)

\* the `?` after a step of change_mac: an error is returned at once
Try(res, next) == IF res.kind = "Ok" THEN Goto(next) ELSE Return(res)

\* mutant: the result of a service command is propagated with `?`
Ignore_Propagate(res, next) == IF res.kind = "Ok" THEN Goto(next) ELSE Return(res)

\* `let _ = ...`: the step's result is dropped
Ignore(res, next) == Goto(next)

check_permissions(h) ==
    IF ~h.elevated THEN Err("PermissionDenied", "not elevated", 0) ELSE OkRes

CmCheckPermissions ==
    /\ cpc = "check_permissions"
    /\ Try(check_permissions(host),
           IF host.platform = "linux" THEN "verify_interface_exists"
           ELSE IF host.platform = "windows" THEN "find_network_adapter"
           ELSE "macos_change")
    /\ UNCHANGED <<host, cli, ret, arg, attempt, success, last_error, card, new_mac,
                   old_mac, iface, service, baseline, persisted, filter, log, calls,
                   ops, lastRes, readBack>>
    /\ UNCHANGED extVars

\* linux: /sys/class/net/<interface> exists
verify_interface_exists(h) ==
    IF h.ifKind = "absent" THEN Err("ValidationFailed", "does not exist", 0) ELSE OkRes

CmVerifyInterfaceExists ==
    /\ cpc = "verify_interface_exists"
    /\ Try(verify_interface_exists(host), "find_command")
    /\ UNCHANGED <<host, cli, ret, arg, attempt, success, last_error, card, new_mac,
                   old_mac, iface, service, baseline, persisted, filter, log, calls,
                   ops, lastRes, readBack>>
    /\ UNCHANGED extVars

\* windows: the adapter's registry key
find_network_adapter(h) ==
    CASE h.adapter = "noadapter" -> Err("ValidationFailed", "no adapter", 0)
      [] h.adapter = "noreg"     -> Err("SystemError", "no registry key", 0)
      [] OTHER                   -> OkRes

CmFindNetworkAdapter ==
    /\ cpc = "find_network_adapter"
    /\ Try(find_network_adapter(host), "link_down")
    /\ UNCHANGED <<host, cli, ret, arg, attempt, success, last_error, card, new_mac,
                   old_mac, iface, service, baseline, persisted, filter, log, calls,
                   ops, lastRes, readBack>>
    /\ UNCHANGED extVars

\* linux: find_command("ip").ok_or_else(...)
find_command(h) ==
    IF ~h.ip_found THEN Err("SystemError", "ip not found", 0) ELSE OkRes

CmFindCommand ==
    /\ cpc = "find_command"
    /\ Try(find_command(host), "stop_service")
    /\ UNCHANGED <<host, cli, ret, arg, attempt, success, last_error, card, new_mac,
                   old_mac, iface, service, baseline, persisted, filter, log, calls,
                   ops, lastRes, readBack>>
    /\ UNCHANGED extVars

\* linux: systemctl stop NetworkManager, its result dropped
CmStopService ==
    /\ cpc = "stop_service"
    /\ \E out \in CmdOutcomes :
         /\ service' = IF out.st = "ok" THEN "stopped" ELSE service
         /\ Issue("stop", out.st = "ok", OkRes)
         /\ Ignore(command_output(out), "link_down")
    /\ UNCHANGED <<host, cli, ret, arg, attempt, success, last_error, card, new_mac,
                   old_mac, iface, baseline, persisted, filter, log, calls, readBack>>
    /\ UNCHANGED extVars

\* mutant: only the first failure is kept
NextLastError_KeepFirst(prev, e) == IF prev.kind = "Ok" THEN e ELSE prev

\* the loop's last_error after a failed attempt
NextLastError(prev, e) == e

\* mutant: the loop never gives up
GivesUp_Never(h, made) == FALSE

\* whether the link-down step gives up after `made` failed attempts
GivesUp(h, made) == IF h.platform = "linux" THEN made >= max_retries ELSE TRUE

\* linux: up to max_retries tries of `ip link set dev <if> down`;
\* windows: one `netsh ... admin=disable`, its error returned at once
CmLinkDown ==
    /\ cpc = "link_down"
    /\ \E out \in CmdOutcomes :
         LET res == execute_command(out) IN
         /\ attempt' = attempt + 1
         /\ Issue("down", res.kind = "Ok", res)
         /\ IF res.kind = "Ok"
            THEN /\ success' = TRUE
                 /\ iface' = [iface EXCEPT !.up = FALSE]
                 /\ UNCHANGED last_error
                 /\ Goto("set_address")
            ELSE /\ last_error' = NextLastError(last_error, res)
                 /\ UNCHANGED <<success, iface>>
                 /\ IF GivesUp(host, attempt + 1)
                    THEN Return(last_error')
                    ELSE Goto("link_down")
    /\ UNCHANGED <<host, cli, ret, arg, card, new_mac, old_mac, service, baseline,
                   persisted, filter, log, calls, readBack>>
    /\ UNCHANGED extVars

\* windows: cleaned_mac, the registry value
cleaned_mac(mac) == replace(replace(replace(mac, ":", <<>>), "-", <<>>), ".", <<>>)

\* ip(8) reads a link-layer address as hex groups separated by colons; given
\* any other text the command exits unsuccessfully
ll_addr_ok(mac) ==
    /\ Len(mac) = 17
    /\ \A i \in 1..17 : IF i % 3 = 0 THEN mac[i] = ":" ELSE IsHexChar(mac[i])

\* linux: `ip link set dev <if> address <mac>`; windows: the NetworkAddress
\* registry value, which is a persistent setting
CmSetAddress ==
    /\ cpc = "set_address"
    /\ \E out \in {o \in CmdOutcomes :
                     (host.platform = "linux" /\ o.st = "ok") => ll_addr_ok(arg.mac)} :
         LET res == IF host.platform = "linux" THEN execute_command(out)
                    ELSE IF out.st = "ok" THEN OkRes ELSE Err("IoError", "registry", 0)
         IN
         /\ Issue("set", res.kind = "Ok", res)
         /\ iface' = IF res.kind = "Ok" /\ host.platform = "linux"
                     THEN [iface EXCEPT !.bytes = BytesOfText(arg.mac)]
                     ELSE iface
         /\ persisted' = IF res.kind = "Ok" /\ host.platform = "windows"
                         THEN cleaned_mac(arg.mac)
                         ELSE persisted
         /\ Try(res, "link_up")
    /\ UNCHANGED <<host, cli, ret, arg, attempt, success, last_error, card, new_mac,
                   old_mac, service, baseline, filter, log, calls, readBack>>
    /\ UNCHANGED extVars

\* linux: `ip link set dev <if> up`; windows: `netsh ... admin=enable`, on
\* which the driver takes the registry value or ignores it
CmLinkUp ==
    /\ cpc = "link_up"
    /\ \E out \in CmdOutcomes :
         LET res == execute_command(out) IN
         /\ Issue("up", res.kind = "Ok", res)
         /\ IF res.kind = "Ok"
            THEN \E b \in {iface.bytes} \cup
                          (IF host.platform = "windows" /\ persisted # None
                           THEN {BytesOfClean(persisted)} ELSE {}) :
                    iface' = [bytes |-> b, up |-> TRUE]
            ELSE UNCHANGED iface
         /\ Try(res, IF host.platform = "linux" THEN "start_service" ELSE "verify")
    /\ UNCHANGED <<host, cli, ret, arg, attempt, success, last_error, card, new_mac,
                   old_mac, service, baseline, persisted, filter, log, calls, readBack>>
    /\ UNCHANGED extVars

\* linux: systemctl start NetworkManager, its result dropped; the service,
\* running again, may put the address it manages back on the interface
CmStartService ==
    /\ cpc = "start_service"
    /\ \E out \in CmdOutcomes :
         /\ service' = IF out.st = "ok" THEN "running" ELSE service
         /\ Issue("start", out.st = "ok", OkRes)
         /\ \E b \in {iface.bytes} \cup (IF out.st = "ok" THEN {FactoryBytes} ELSE {}) :
               iface' = [iface EXCEPT !.bytes = b]
         /\ Ignore(command_output(out),
                   IF arg.permanent THEN "make_permanent" ELSE "verify")
    /\ UNCHANGED <<host, cli, ret, arg, attempt, success, last_error, card, new_mac,
                   old_mac, baseline, persisted, filter, log, calls, readBack>>
    /\ UNCHANGED extVars

PersistOutcomes == {"ok", "nodir", "writefail", "reloadfail"}

\* linux make_permanent: the udev rule, then udevadm reload
make_permanent(out) ==
    CASE out = "ok" -> OkRes
      [] out = "nodir" -> Err("SystemError", "no rules.d", 0)
      [] out = "writefail" -> Err("SystemError", "write udev rule", 0)
      [] OTHER -> Err("SystemError", "reload udev rules", 0)

CmMakePermanent ==
    /\ cpc = "make_permanent"
    /\ \E out \in PersistOutcomes :
         /\ Issue("persist", out \in {"ok", "reloadfail"}, make_permanent(out))
         /\ persisted' = IF out \in {"ok", "reloadfail"} THEN arg.mac ELSE persisted
         /\ Try(make_permanent(out), "verify")
    /\ UNCHANGED <<host, cli, ret, arg, attempt, success, last_error, card, new_mac,
                   old_mac, iface, service, baseline, filter, log, calls, readBack>>
    /\ UNCHANGED extVars

\* mutant: the texts are compared as they are
VerifyForm_Exact(h, t) == t

\* the two texts verify_mac_change compares
VerifyForm(h, t) ==
    IF h.platform = "linux" THEN to_lowercase(t)
    ELSE to_lowercase(replace(replace(t, ":", <<"-">>), ".", <<"-">>))

\* mutant: the comparison is left out
verify_mac_change_Unchecked(h, expected_mac, current_mac) == OkRes

\* verify_mac_change, given the text get_current_mac returned
verify_mac_change(h, expected_mac, current_mac) ==
    IF VerifyForm(h, current_mac) # VerifyForm(h, expected_mac)
    THEN IF h.platform = "linux" THEN Mismatch(expected_mac, current_mac)
         ELSE Mismatch(VerifyForm(h, expected_mac), VerifyForm(h, current_mac))
    ELSE OkRes

CmVerify ==
    /\ cpc = "verify"
    /\ \E out \in ReadOutcomes :
         IF get_current_mac(out).kind # "Ok"
         THEN /\ Issue("read", FALSE, get_current_mac(out))
              /\ UNCHANGED readBack
              /\ Return(get_current_mac(out))
         ELSE /\ Issue("read", TRUE, OkRes)
              /\ readBack' = CurrentText(host, iface.bytes)
              /\ Return(verify_mac_change(host, arg.mac, readBack'))
    /\ UNCHANGED <<host, cli, ret, arg, attempt, success, last_error, card, new_mac,
                   old_mac, iface, service, baseline, persisted, filter, log, calls>>
    /\ UNCHANGED extVars

\* macos: the orchestrator of that build, which has no persistence step: the
\* call ends Done with the requested address on the interface, or Aborted
\* at a command or at the verification
CmMacosChange ==
    /\ cpc = "macos_change"
    /\ \E out \in {"done", "command", "verify"} :
         /\ iface' = IF out = "command" THEN iface
                     ELSE IF out = "done" THEN [bytes |-> BytesOfText(arg.mac), up |-> TRUE]
                     ELSE [iface EXCEPT !.up = TRUE]
         /\ Return(CASE out = "done" -> OkRes
                     [] out = "command" -> Err("SystemError", "stderr", 1)
                     [] OTHER -> Mismatch(arg.mac, CurrentText(host, iface.bytes)))
    /\ UNCHANGED <<host, cli, ret, arg, attempt, success, last_error, card, new_mac,
                   old_mac, service, baseline, persisted, filter, log, calls, readBack>>
    /\ UNCHANGED histVars
    /\ UNCHANGED extVars

change_mac ==
    \/ CmCheckPermissions
    \/ CmVerifyInterfaceExists
    \/ CmFindNetworkAdapter
    \/ CmFindCommand
    \/ CmStopService
    \/ CmLinkDown
    \/ CmSetAddress
    \/ CmLinkUp
    \/ CmStartService
    \/ CmMakePermanent
    \/ CmVerify

(***************************************************************************)
(* The controller (main.rs, main)                                          *)
(***************************************************************************)
Exit(res) ==
    /\ pc' = "exit"
    /\ result' = res

Step(next) ==
    /\ pc' = next
    /\ UNCHANGED result

\* mutant: the privilege check is left out of main
check_privileges_Skip(h) == OkRes

check_privileges(h) ==
    IF ~h.elevated THEN Err("PermissionDenied", "not elevated", 0) ELSE OkRes

MCheckPrivileges ==
    /\ pc = "check_privileges"
    /\ IF check_privileges(host).kind # "Ok"
       THEN Exit(check_privileges(host))
       ELSE Step("verify_interface")
    /\ UNCHANGED <<host, cli, card, new_mac, old_mac, baseline, filter, log>>
    /\ UNCHANGED callVars
    /\ UNCHANGED hostVars
    /\ UNCHANGED histVars
    /\ UNCHANGED extVars

\* mutant: the loopback check is left out
verify_interface_NoLoopback(h, wmic) ==
    IF h.ifKind = "absent" THEN Err("ValidationFailed", "not found", 0)
    ELSE IF h.platform = "linux" THEN OkRes
         ELSE IF wmic.st = "spawn" THEN Err("IoError", "spawn", 0)
              ELSE IF wmic.st = "exit" THEN Err("SystemError", "stderr", wmic.stderr)
              ELSE OkRes

\* NetworkCard::verify_interface and NetworkCard::new: the error, or Ok
\* (wmic is the outcome of the windows build's `wmic nic get ...` and of
\* the macos build's `networksetup -listallhardwareports`)
verify_interface(h, wmic) ==
    IF h.ifKind = "absent" THEN Err("ValidationFailed", "not found", 0)
    ELSE IF h.platform = "linux"
         THEN IF h.ifKind = "loopback" THEN Err("ValidationFailed", "loopback", 0)
              ELSE OkRes
         ELSE IF wmic.st = "spawn" THEN Err("IoError", "spawn", 0)
              ELSE IF wmic.st = "exit" THEN Err("SystemError", "stderr", wmic.stderr)
              ELSE OkRes

\* the snapshot NetworkCard::new builds
NetworkCard_new(h) ==
    IF h.platform = "linux"
    THEN [supports_mac_change |-> h.ifKind \notin {"loopback", "p2p"},
          permanent_change_supported |-> h.ifKind \notin {"loopback", "p2p"}]
    ELSE [supports_mac_change |-> TRUE,
          permanent_change_supported |-> h.platform = "windows"]

MVerifyInterface ==
    /\ pc = "verify_interface"
    /\ \E wmic \in (IF host.platform # "linux" /\ host.ifKind # "absent"
                    THEN CmdOutcomes ELSE {[st |-> "ok", stderr |-> 0, stdout |-> 0]}) :
         IF verify_interface(host, wmic).kind # "Ok"
         THEN Exit(verify_interface(host, wmic)) /\ UNCHANGED card
         ELSE /\ card' = NetworkCard_new(host)
              /\ Step(IF cli.mode = "restore" THEN "restore" ELSE "new_mac")
    /\ UNCHANGED <<host, cli, new_mac, old_mac, baseline, filter, log>>
    /\ UNCHANGED callVars
    /\ UNCHANGED hostVars
    /\ UNCHANGED histVars
    /\ UNCHANGED extVars

\* reading or writing a file of the configuration directory works or fails
StoreOutcomes == {"ok", "fail"}
StoreErr == Err("IoError", "store", 0)

\* mutant: an address is delivered also when none is stored
get_original_mac_Default(stored) ==
    IF stored = None THEN Joined(FactoryBytes, <<":">>, FALSE) ELSE stored

\* get_original_mac: the stored text (None when no file exists)
get_original_mac(stored) == stored

\* --restore: change_mac(interface, original_mac, false), or no baseline
MRestore ==
    /\ pc = "restore"
    /\ \E st \in StoreOutcomes :
         IF st = "fail"
         THEN Exit(StoreErr) /\ UNCHANGED callVars /\ UNCHANGED histVars
         ELSE IF get_original_mac(baseline) # None
              THEN Call(get_original_mac(baseline), FALSE, "restored") /\ UNCHANGED result
              ELSE Exit(Err("ValidationFailed", "no original", 0)) /\ UNCHANGED callVars
                   /\ UNCHANGED histVars
    /\ UNCHANGED <<host, cli, card, new_mac, old_mac, baseline, filter, log>>
    /\ UNCHANGED hostVars
    /\ UNCHANGED extVars

MRestored ==
    /\ pc = "restored"
    /\ cpc = "idle"
    /\ Exit(OkRes)
    /\ UNCHANGED <<host, cli, card, new_mac, old_mac, baseline, filter, log>>
    /\ UNCHANGED callVars
    /\ UNCHANGED hostVars
    /\ UNCHANGED histVars
    /\ UNCHANGED extVars

\* the first "Get new MAC address" (main.rs 198-206)
MNewMac ==
    /\ pc = "new_mac"
    /\ IF cli.mode = "random"
       THEN \E rnd \in RngDraws :
               new_mac' = as_string(generate_random_mac(cli.vendor, rnd))
       ELSE new_mac' = cli.mac
    /\ Step("save_original_1")
    /\ UNCHANGED <<host, cli, card, old_mac, baseline, filter, log>>
    /\ UNCHANGED callVars
    /\ UNCHANGED hostVars
    /\ UNCHANGED histVars
    /\ UNCHANGED extVars

\* "Save original MAC if first time": only when nothing is stored, and only
\* when the current address can be read
SaveOriginal(next) ==
    \E st \in StoreOutcomes, rd \in ReadOutcomes, wr \in StoreOutcomes :
       IF st = "fail"
       THEN Exit(StoreErr) /\ UNCHANGED baseline
       ELSE IF get_original_mac(baseline) = None /\ get_current_mac(rd).kind = "Ok"
            THEN IF wr = "fail"
                 THEN Exit(StoreErr) /\ UNCHANGED baseline
                 ELSE baseline' = CurrentText(host, iface.bytes) /\ Step(next)
            ELSE Step(next) /\ UNCHANGED baseline

MSaveOriginal1 ==
    /\ pc = "save_original_1"
    /\ SaveOriginal(IF host.platform = "macos" THEN "downgrade" ELSE "save_original_2")
    /\ UNCHANGED <<host, cli, card, new_mac, old_mac, filter, log>>
    /\ UNCHANGED callVars
    /\ UNCHANGED hostVars
    /\ UNCHANGED histVars
    /\ UNCHANGED extVars

MSaveOriginal2 ==
    /\ pc = "save_original_2"
    /\ SaveOriginal("change_1")
    /\ UNCHANGED <<host, cli, card, new_mac, old_mac, filter, log>>
    /\ UNCHANGED callVars
    /\ UNCHANGED hostVars
    /\ UNCHANGED histVars
    /\ UNCHANGED extVars

\* mutant: the macos build keeps the permanence that was asked for
downgrade_Keep(c) == c

\* macos build: "Force permanent to false on macOS" (main.rs 222-228)
downgrade(c) == IF c.permanent THEN [c EXCEPT !.permanent = FALSE] ELSE c

\* the `permanent` the first change_mac call is given (main.rs 246-250)
permanent_1(h, c) == IF h.platform = "macos" THEN FALSE ELSE c.permanent

\* the first "Change MAC" (main.rs 243-252)
MChange1 ==
    /\ pc = "change_1"
    /\ Call(new_mac, permanent_1(host, cli), "post_change")
    /\ UNCHANGED <<host, cli, card, new_mac, old_mac, result, baseline, filter, log>>
    /\ UNCHANGED hostVars
    /\ UNCHANGED extVars

\* macos build only: the permanence check between the two baseline saves
MDowngrade ==
    /\ pc = "downgrade"
    /\ cli' = downgrade(cli)
    /\ Step("save_original_2")
    /\ UNCHANGED <<host, card, new_mac, old_mac, baseline, filter, log>>
    /\ UNCHANGED callVars
    /\ UNCHANGED hostVars
    /\ UNCHANGED histVars
    /\ UNCHANGED extVars

add_to_whitelist(f, prefix) == [f EXCEPT !.whitelist = @ \cup {to_uppercase(prefix)}]
add_to_blacklist(f, prefix) == [f EXCEPT !.blacklist = @ \cup {to_uppercase(prefix)}]

\* after the first change: the success message, then --whitelist,
\* --blacklist and --history, each of which ends the invocation
MPostChange ==
    /\ pc = "post_change"
    /\ cpc = "idle"
    /\ IF cli.whitelist # None
       THEN \E wr \in StoreOutcomes :
               IF wr = "fail" THEN Exit(StoreErr) /\ UNCHANGED filter
               ELSE filter' = add_to_whitelist(filter, cli.whitelist) /\ Exit(OkRes)
       ELSE IF cli.blacklist # None
       THEN \E wr \in StoreOutcomes :
               IF wr = "fail" THEN Exit(StoreErr) /\ UNCHANGED filter
               ELSE filter' = add_to_blacklist(filter, cli.blacklist) /\ Exit(OkRes)
       ELSE IF cli.history
       THEN \E rd \in StoreOutcomes :
               (IF rd = "fail" THEN Exit(StoreErr) ELSE Exit(OkRes)) /\ UNCHANGED filter
       ELSE Step("new_mac_2") /\ UNCHANGED filter
    /\ UNCHANGED <<host, cli, card, new_mac, old_mac, baseline, log>>
    /\ UNCHANGED callVars
    /\ UNCHANGED hostVars
    /\ UNCHANGED histVars
    /\ UNCHANGED extVars

\* GeoLocationService::suggest_mac_for_location
suggest_mac_for_location(h) == h.geo

\* the second "Get new MAC address" (main.rs 292-309)
MNewMac2 ==
    /\ pc = "new_mac_2"
    /\ IF cli.mode = "random"
       THEN IF cli.spoof_location
            THEN IF suggest_mac_for_location(host) # None
                 THEN new_mac' = suggest_mac_for_location(host) /\ Step("filter")
                 ELSE Exit(Err("ValidationFailed", "no vendor", 0)) /\ UNCHANGED new_mac
            ELSE /\ \E rnd \in RngDraws :
                       new_mac' = as_string(generate_random_mac(cli.vendor, rnd))
                 /\ Step("filter")
       ELSE new_mac' = cli.mac /\ Step("filter")
    /\ UNCHANGED <<host, cli, card, old_mac, baseline, filter, log>>
    /\ UNCHANGED callVars
    /\ UNCHANGED hostVars
    /\ UNCHANGED histVars
    /\ UNCHANGED extVars

\* "Check against filters"
MFilter ==
    /\ pc = "filter"
    /\ IF ~is_allowed(filter, new_mac)
       THEN Exit(Err("ValidationFailed", "not allowed", 0))
       ELSE Step("old_mac")
    /\ UNCHANGED <<host, cli, card, new_mac, old_mac, baseline, filter, log>>
    /\ UNCHANGED callVars
    /\ UNCHANGED hostVars
    /\ UNCHANGED histVars
    /\ UNCHANGED extVars

\* "Get current MAC for logging"
MOldMac ==
    /\ pc = "old_mac"
    /\ \E rd \in ReadOutcomes :
         IF get_current_mac(rd).kind # "Ok"
         THEN Exit(get_current_mac(rd)) /\ UNCHANGED old_mac
         ELSE old_mac' = CurrentText(host, iface.bytes) /\ Step("change_2")
    /\ UNCHANGED <<host, cli, card, new_mac, baseline, filter, log>>
    /\ UNCHANGED callVars
    /\ UNCHANGED hostVars
    /\ UNCHANGED histVars
    /\ UNCHANGED extVars

\* the second "Change MAC" (main.rs 319-320)
MChange2 ==
    /\ pc = "change_2"
    /\ Call(new_mac, cli.permanent, "log")
    /\ UNCHANGED <<host, cli, card, new_mac, old_mac, result, baseline, filter, log>>
    /\ UNCHANGED hostVars
    /\ UNCHANGED extVars

\* "Log the change"
MLog ==
    /\ pc = "log"
    /\ cpc = "idle"
    /\ \E wr \in StoreOutcomes :
         IF wr = "fail" THEN Exit(StoreErr) /\ UNCHANGED log
         ELSE /\ log' = Append(log, [old_mac |-> old_mac, new_mac |-> new_mac,
                                     permanent |-> cli.permanent])
              /\ Exit(OkRes)
    /\ UNCHANGED <<host, cli, card, new_mac, old_mac, baseline, filter>>
    /\ UNCHANGED callVars
    /\ UNCHANGED hostVars
    /\ UNCHANGED histVars
    /\ UNCHANGED extVars

main ==
    \/ MCheckPrivileges
    \/ MVerifyInterface
    \/ MRestore
    \/ MRestored
    \/ MNewMac
    \/ MSaveOriginal1
    \/ MSaveOriginal2
    \/ MChange1
    \/ MPostChange
    \/ MNewMac2
    \/ MFilter
    \/ MOldMac
    \/ MChange2
    \/ MLog

Next == main \/ change_mac

Spec == Init /\ [][Next]_vars

(***************************************************************************)
(* One call of change_mac on its own                                       *)
(***************************************************************************)
\* main has passed its checks and enters change_mac at the first "Change
\* MAC" with the address given on the command line
InitCall ==
    /\ host \in {h \in Hosts :
                    /\ check_privileges(h) = OkRes
                    /\ verify_interface(h, [st |-> "ok", stderr |-> 0, stdout |-> 0]) = OkRes}
    /\ cli \in {c \in Clis : /\ c.mode = "mac" /\ c.whitelist = None
                            /\ c.blacklist = None /\ ~c.history}
    /\ pc = "in_change"
    /\ cpc = "check_permissions"
    /\ ret = "post_change"
    /\ arg = [mac |-> cli.mac, permanent |-> permanent_1(host, cli)]
    /\ attempt = 0
    /\ success = FALSE
    /\ last_error = OkRes
    /\ card = NetworkCard_new(host)
    /\ new_mac = cli.mac
    /\ old_mac = None
    /\ result = [kind |-> "none", from |-> "", text |-> 0, expected |-> None, got |-> None]
    /\ cm_result = [kind |-> "none", from |-> "", text |-> 0, expected |-> None, got |-> None]
    /\ iface = [bytes |-> FactoryBytes, up |-> TRUE]
    /\ service = "running"
    /\ baseline = Joined(FactoryBytes, <<":">>, FALSE)
    /\ persisted = None
    /\ filter = [whitelist |-> {}, blacklist |-> {}]
    /\ log = <<>>
    /\ calls = <<[mac |-> cli.mac, permanent |-> permanent_1(host, cli),
                  allowed |-> is_allowed(filter, cli.mac), at |-> "change_1"]>>
    /\ ops = <<>>
    /\ lastRes = OkRes
    /\ readBack = None
    /\ inv = 1
    /\ rules = NoRules
    /\ inserted = <<>>
    /\ applied = NotApplied
    /\ argv = cli
    /\ store_file = NoRules
    /\ managers = [p \in Procs |-> NoManager]
    /\ racers = [p \in Procs |-> NoRacer]

\* the call is sequential code that keeps running: a step of change_mac
\* that can be taken is taken. The steps of change_mac are enabled exactly
\* while the call has not returned (cpc # "idle"), and weak fairness of
\* change_mac is written with that enabling condition; for the retry loop it
\* is written as WF.
CallFairness ==
    /\ WF_vars(CmLinkDown)
    /\ ([]<>(cpc = "idle") \/ []<><<change_mac>>_vars)

SpecCall == InitCall /\ [][change_mac]_vars /\ CallFairness

(***************************************************************************)
(* Invocations one after another on the same host                          *)
(***************************************************************************)
\* the command lines of the invocations: --mac 02:AA:BB:CC:DD:01 with and
\* without --permanent, and --restore
SeqClis ==
    {c \in Clis : /\ c.mode \in {"mac", "restore"}
                  /\ c.mac \in {None, Joined(BytesA, <<":">>, TRUE)}
                  /\ c.whitelist = None /\ c.blacklist = None
                  /\ ~c.history /\ ~c.spoof_location}

\* the process ends and the tool is started again: main begins anew, while
\* the interface, the service and the files stay as they were left
MNextInvocation ==
    /\ pc = "exit"
    /\ inv < MaxInvocations
    /\ inv' = inv + 1
    /\ cli' \in SeqClis
    /\ pc' = "check_privileges"
    /\ cpc' = "idle"
    /\ ret' = "exit"
    /\ arg' = [mac |-> None, permanent |-> FALSE]
    /\ attempt' = 0
    /\ success' = FALSE
    /\ last_error' = OkRes
    /\ card' = NoCard
    /\ new_mac' = None
    /\ old_mac' = None
    /\ result' = [kind |-> "none", from |-> "", text |-> 0, expected |-> None, got |-> None]
    /\ cm_result' = OkRes
    /\ calls' = <<>>
    /\ ops' = <<>>
    /\ lastRes' = OkRes
    /\ readBack' = None
    /\ argv' = cli'
    /\ UNCHANGED <<store_file, managers, racers>>
    /\ UNCHANGED <<host, iface, service, baseline, persisted, filter, log>>
    /\ UNCHANGED ruleVars

\* the first invocation on a host the tool has not touched: the interface
\* holds its factory address and nothing is stored
InitSeq ==
    /\ Init
    /\ host.elevated /\ host.ifKind = "ether" /\ host.ip_found
    /\ host.adapter = "ok" /\ host.geo = None
    /\ cli \in SeqClis
    /\ baseline = None
    /\ filter = [whitelist |-> {}, blacklist |-> {}]

NextSeq == Next \/ MNextInvocation

SpecSeq == InitSeq /\ [][NextSeq]_vars

(***************************************************************************)
(* The three builds side by side                                           *)
(***************************************************************************)
\* hosts of the macos build
MacosHosts ==
    [platform : {"macos"}, elevated : BOOLEAN, ifKind : {"absent", "ether"},
     ip_found : {TRUE}, adapter : {"ok"}, geo : {None}]

\* an invocation on a host of any build, elevated and with the interface
\* present on linux and windows
InitBuilds ==
    /\ host \in {h \in Hosts : h.elevated /\ h.ifKind = "ether" /\ h.ip_found
                               /\ h.adapter = "ok" /\ h.geo = None}
                \cup MacosHosts
    /\ cli \in Clis
    /\ pc = "check_privileges"
    /\ cpc = "idle"
    /\ ret = "exit"
    /\ arg = [mac |-> None, permanent |-> FALSE]
    /\ attempt = 0
    /\ success = FALSE
    /\ last_error = OkRes
    /\ card = NoCard
    /\ new_mac = None
    /\ old_mac = None
    /\ result = [kind |-> "none", from |-> "", text |-> 0, expected |-> None, got |-> None]
    /\ cm_result = OkRes
    /\ iface = [bytes |-> FactoryBytes, up |-> TRUE]
    /\ service = "running"
    /\ baseline \in {None, Joined(FactoryBytes, <<":">>, FALSE)}
    /\ persisted = None
    /\ filter = [whitelist |-> {}, blacklist |-> {}]
    /\ log = <<>>
    /\ calls = <<>>
    /\ ops = <<>>
    /\ lastRes = OkRes
    /\ readBack = None
    /\ inv = 1
    /\ rules = NoRules
    /\ inserted = <<>>
    /\ applied = NotApplied
    /\ argv = cli
    /\ store_file = NoRules
    /\ managers = [p \in Procs |-> NoManager]
    /\ racers = [p \in Procs |-> NoRacer]

NextBuilds == Next \/ MDowngrade \/ CmMacosChange

SpecBuilds == InitBuilds /\ [][NextBuilds]_vars

(***************************************************************************)
(* Schedules and the rule store (rules.rs)                                 *)
(***************************************************************************)
Digits == <<"0","1","2","3","4","5","6","7","8","9">>
IsDigit(c) == \E i \in 1..10 : c = Digits[i]
DigitVal(c) == (CHOOSE i \in 1..10 : c = Digits[i]) - 1

\* how many characters a %H or %M item takes: one or two digits, greedily
LeadDigits(t) ==
    IF Len(t) >= 2 /\ IsDigit(t[1]) /\ IsDigit(t[2]) THEN 2
    ELSE IF Len(t) >= 1 /\ IsDigit(t[1]) THEN 1
    ELSE 0

\* the number a text of one or two digits denotes
Number(t) == IF Len(t) = 1 THEN DigitVal(t[1]) ELSE 10 * DigitVal(t[1]) + DigitVal(t[2])

\* NaiveTime::parse_from_str(t, "%H:%M"): the seconds since midnight, or -1
\* for the Err the caller unwraps
parse_from_str(t) ==
    LET k    == LeadDigits(t)
        rest == SubSeq(t, k + 2, Len(t))
    IN  IF k = 0 \/ Len(t) < k + 2 \/ t[k + 1] # ":" THEN -1
        ELSE IF LeadDigits(rest) = 0 \/ LeadDigits(rest) # Len(rest) THEN -1
        ELSE IF Number(SubSeq(t, 1, k)) > 23 \/ Number(rest) > 59 THEN -1
        ELSE 3600 * Number(SubSeq(t, 1, k)) + 60 * Number(rest)

\* Option<Schedule>
NoSchedule == [some |-> FALSE, days |-> <<>>, start_time |-> <<>>, end_time |-> <<>>]
Schedule(days, start_time, end_time) ==
    [some |-> TRUE, days |-> days, start_time |-> start_time, end_time |-> end_time]

\* AppRule; service_name and last_applied are stored and never read
AppRule(app_name, interface, mac_address, schedule, enabled) ==
    [app_name |-> app_name, interface |-> interface, mac_address |-> mac_address,
     schedule |-> schedule, enabled |-> enabled]

\* what is_rule_active comes to: a bool, or the panic of an unwrap
Returns(b) == [panicked |-> FALSE, value |-> b]
Panics == [panicked |-> TRUE, value |-> FALSE]

\* the instant chrono::Local::now() delivers: the weekday as %A prints it and
\* the time of day in seconds
Instant(day, h, m, s) == [day |-> day, secs |-> 3600 * h + 60 * m + s]

\* mutant: every rule is active
is_rule_active_Always(rule, now) == Returns(TRUE)

\* mutant: a disabled rule is treated like an enabled one
is_rule_active_IgnoreEnabled(rule, now) ==
    IF rule.schedule.some
    THEN IF ~\E i \in DOMAIN rule.schedule.days :
               to_lowercase(rule.schedule.days[i]) = to_lowercase(now.day)
         THEN Returns(FALSE)
         ELSE IF parse_from_str(rule.schedule.start_time) < 0
                 \/ parse_from_str(rule.schedule.end_time) < 0
              THEN Panics
              ELSE Returns(~(now.secs < parse_from_str(rule.schedule.start_time)
                             \/ now.secs > parse_from_str(rule.schedule.end_time)))
    ELSE Returns(TRUE)

\* mutant: the upper bound of the schedule is exclusive
is_rule_active_EndExclusive(rule, now) ==
    IF ~rule.enabled THEN Returns(FALSE)
    ELSE IF rule.schedule.some
    THEN IF ~\E i \in DOMAIN rule.schedule.days :
               to_lowercase(rule.schedule.days[i]) = to_lowercase(now.day)
         THEN Returns(FALSE)
         ELSE IF parse_from_str(rule.schedule.start_time) < 0
                 \/ parse_from_str(rule.schedule.end_time) < 0
              THEN Panics
              ELSE Returns(~(now.secs < parse_from_str(rule.schedule.start_time)
                             \/ now.secs >= parse_from_str(rule.schedule.end_time)))
    ELSE Returns(TRUE)

\* mutant: a schedule whose start is after its end wraps around midnight
is_rule_active_Wraparound(rule, now) ==
    IF ~rule.enabled THEN Returns(FALSE)
    ELSE IF rule.schedule.some
    THEN IF ~\E i \in DOMAIN rule.schedule.days :
               to_lowercase(rule.schedule.days[i]) = to_lowercase(now.day)
         THEN Returns(FALSE)
         ELSE IF parse_from_str(rule.schedule.start_time) < 0
                 \/ parse_from_str(rule.schedule.end_time) < 0
              THEN Panics
              ELSE LET s == parse_from_str(rule.schedule.start_time)
                       e == parse_from_str(rule.schedule.end_time)
                   IN  Returns(IF s <= e THEN s <= now.secs /\ now.secs <= e
                               ELSE now.secs >= s \/ now.secs <= e)
    ELSE Returns(TRUE)

\* RuleManager::is_rule_active at the instant now
is_rule_active(rule, now) ==
    IF ~rule.enabled THEN Returns(FALSE)
    ELSE IF rule.schedule.some
    THEN IF ~\E i \in DOMAIN rule.schedule.days :
               to_lowercase(rule.schedule.days[i]) = to_lowercase(now.day)
         THEN Returns(FALSE)
         ELSE IF parse_from_str(rule.schedule.start_time) < 0
                 \/ parse_from_str(rule.schedule.end_time) < 0
              THEN Panics
              ELSE Returns(~(now.secs < parse_from_str(rule.schedule.start_time)
                             \/ now.secs > parse_from_str(rule.schedule.end_time)))
    ELSE Returns(TRUE)

\* format!("{}:{}", app_name, interface)
RuleKey(app_name, interface) == app_name \o <<":">> \o interface

\* mutant: a rule is stored under a key of its own, so none is replaced
insert_KeepBoth(map, key, rule) ==
    LET k == IF key \in DOMAIN map THEN key \o <<"#">> ELSE key
    IN  [x \in DOMAIN map \cup {k} |-> IF x = k THEN rule ELSE map[x]]

\* HashMap::insert
insert(map, key, rule) ==
    [x \in DOMAIN map \cup {key} |-> IF x = key THEN rule ELSE map[x]]

\* HashMap::remove
remove(map, key) == [x \in DOMAIN map \ {key} |-> map[x]]

\* RuleManager::get_rule: the rule, or NoRule for Option::None
NoRule == AppRule(<<>>, <<>>, <<>>, NoSchedule, FALSE)
get_rule(map, app_name, interface) ==
    IF RuleKey(app_name, interface) \in DOMAIN map
    THEN map[RuleKey(app_name, interface)] ELSE NoRule

\* the orders in which HashMap::values() can deliver the rules: the hasher is
\* seeded per process, so every order of the keys is possible
Orders(map) ==
    {o \in [1..Cardinality(DOMAIN map) -> DOMAIN map] :
        \A i, j \in DOMAIN o : i # j => o[i] # o[j]}

\* RuleManager::list_rules, delivered in the order o of the keys
list_rules(map, o) == [i \in DOMAIN o |-> map[o[i]]]

\* Option<MacAddress>, or the panic of is_rule_active
NoOverride == [panicked |-> FALSE, some |-> FALSE, mac |-> <<>>]
Override(mac) == [panicked |-> FALSE, some |-> TRUE, mac |-> mac]
OverridePanics == [panicked |-> TRUE, some |-> FALSE, mac |-> <<>>]

\* select_override(interface, running_app_names): the first rule in the
\* listed order that is for the interface, whose app is running and that is
\* active
RECURSIVE select_override(_, _, _, _)
select_override(listed, interface, running, now) ==
    IF listed = <<>> THEN NoOverride
    ELSE LET rule == Head(listed) IN
         IF rule.interface = interface /\ rule.app_name \in running
         THEN IF is_rule_active(rule, now).panicked THEN OverridePanics
              ELSE IF is_rule_active(rule, now).value THEN Override(rule.mac_address)
              ELSE select_override(Tail(listed), interface, running, now)
         ELSE select_override(Tail(listed), interface, running, now)

(***************************************************************************)
(* Inputs of the library operations                                        *)
(***************************************************************************)
AppNames == {<<"a">>, <<"a", ":", "b">>}
Interfaces == {<<"c">>, <<"b", ":", "c">>}

Monday == <<"M","o","n","d","a","y">>
Tuesday == <<"T","u","e","s","d","a","y">>

T0900 == <<"0","9",":","0","0">>
T1700 == <<"1","7",":","0","0">>
TNoon == <<"n","o","o","n">>

Office == Schedule(<<to_lowercase(Monday)>>, T0900, T1700)
OfficeCaps == Schedule(<<to_uppercase(Monday)>>, T0900, T1700)
Overnight == Schedule(<<to_lowercase(Monday)>>, T1700, T0900)
Unparsed == Schedule(<<to_lowercase(Monday)>>, TNoon, T1700)

MacTextA == Joined(BytesA, <<":">>, FALSE)
MacTextB == Joined(BytesB, <<":">>, FALSE)

RuleInputs ==
    { AppRule(<<"a">>, <<"c">>, MacTextA, NoSchedule, TRUE),
      AppRule(<<"a">>, <<"c">>, MacTextB, Office, FALSE),
      AppRule(<<"a", ":", "b">>, <<"c">>, MacTextB, OfficeCaps, TRUE),
      AppRule(<<"a">>, <<"b", ":", "c">>, MacTextA, NoSchedule, TRUE),
      AppRule(<<"a", ":", "b">>, <<"c">>, MacTextA, Overnight, TRUE),
      AppRule(<<"a", ":", "b">>, <<"b", ":", "c">>, MacTextB, Unparsed, TRUE),
      AppRule(<<"a", ":", "b">>, <<"c">>, MacTextB, NoSchedule, TRUE),
      AppRule(<<"a", ":", "b">>, <<"b", ":", "c">>, MacTextA, Unparsed, FALSE) }

Nows ==
    { Instant(Monday, 8, 59, 59), Instant(Monday, 9, 0, 0), Instant(Monday, 12, 0, 0),
      Instant(Monday, 17, 0, 0), Instant(Monday, 17, 0, 30), Instant(Monday, 17, 1, 0),
      Instant(Monday, 23, 0, 0), Instant(Monday, 3, 0, 0), Instant(Tuesday, 12, 0, 0) }

\* the instants at which an override is selected
SelectNows == {Instant(Monday, 12, 0, 0), Instant(Tuesday, 12, 0, 0)}

\* the process names get_running_applications delivers
RunningLists == SUBSET AppNames

\* the address texts of one 6-byte value: pairs joined by ":", "-", "." or
\* nothing, and three dot-separated groups of four digits, in both cases
DotForm(bytes, upper) ==
    LET g(i) == IF upper THEN to_uppercase(Hex2(bytes[i])) ELSE Hex2(bytes[i])
    IN  g(1) \o g(2) \o <<".">> \o g(3) \o g(4) \o <<".">> \o g(5) \o g(6)
Shapes(bytes) ==
    UNION {{Joined(bytes, <<":">>, u), Joined(bytes, <<"-">>, u), Joined(bytes, <<".">>, u),
            DotForm(bytes, u), Joined(bytes, <<>>, u)} : u \in BOOLEAN}

(***************************************************************************)
(* The library operations as steps                                         *)
(***************************************************************************)
Applied(fn, in, out) == applied' = [fn |-> fn, in |-> in, out |-> out]

\* add_rule: the map is changed first, then the file is written
AddRule ==
    \E rule \in RuleInputs, wr \in StoreOutcomes :
        LET key == RuleKey(rule.app_name, rule.interface) IN
        /\ Cardinality(DOMAIN insert(rules, key, rule)) <= MaxRules
        /\ rules' = insert(rules, key, rule)
        /\ inserted' = IF key \in DOMAIN rules THEN inserted ELSE Append(inserted, key)
        /\ Applied("add_rule", [rule |-> rule],
                   IF wr = "fail" THEN StoreErr ELSE OkRes)
        /\ UNCHANGED <<ctlVars, procVars, inv>>

\* remove_rule
RemoveRule ==
    \E app_name \in AppNames, interface \in Interfaces, wr \in StoreOutcomes :
        LET key == RuleKey(app_name, interface) IN
        /\ rules' = remove(rules, key)
        /\ inserted' = SelectSeq(inserted, LAMBDA k : k # key)
        /\ Applied("remove_rule", [app_name |-> app_name, interface |-> interface],
                   IF wr = "fail" THEN StoreErr ELSE OkRes)
        /\ UNCHANGED <<ctlVars, procVars, inv>>

\* is_rule_active on a stored rule
ApplyIsRuleActive ==
    \E key \in DOMAIN rules, now \in Nows :
        /\ Applied("is_rule_active", [rule |-> rules[key], now |-> now],
                   is_rule_active(rules[key], now))
        /\ UNCHANGED <<ctlVars, procVars, inv, rules, inserted>>

\* select_override over the rules as list_rules delivers them
SelectOverride ==
    \E interface \in Interfaces, running \in RunningLists, now \in SelectNows,
       o \in Orders(rules) :
        /\ Applied("select_override",
                   [interface |-> interface, running |-> running, now |-> now,
                    order |-> o],
                   select_override(list_rules(rules, o), interface, running, now))
        /\ UNCHANGED <<ctlVars, procVars, inv, rules, inserted>>

\* the 6-byte values verification is applied to
VerifyBytes == {FactoryBytes, BytesA, BytesB} \cup RngDraws

VerifyTexts == UNION {Shapes(b) : b \in VerifyBytes}

\* execute_command on an outcome of the child process
ApplyExecuteCommand ==
    \E out \in CmdOutcomes :
        /\ Applied("execute_command", out, execute_command(out))
        /\ UNCHANGED <<ctlVars, procVars, inv, rules, inserted>>

\* verify_mac_change on a requested text and the address the interface
\* holds; on linux it is reached only with a text `ip` has taken
ApplyVerifyMacChange ==
    \E platform \in {"linux", "windows"}, bytes \in VerifyBytes :
      \E expected \in {e \in VerifyTexts : platform = "linux" => ll_addr_ok(e)} :
        LET h == [platform |-> platform] IN
        /\ Applied("verify_mac_change",
                   [platform |-> platform, expected |-> expected,
                    current |-> CurrentText(h, bytes)],
                   verify_mac_change(h, expected, CurrentText(h, bytes)))
        /\ UNCHANGED <<ctlVars, procVars, inv, rules, inserted>>

\* the library operations on their own: main is not running
InitLib ==
    /\ host = [platform |-> "linux", elevated |-> TRUE, ifKind |-> "ether",
               ip_found |-> TRUE, adapter |-> "ok", geo |-> None]
    /\ cli = [mode |-> "restore", mac |-> None, permanent |-> FALSE, vendor |-> None,
              spoof_location |-> FALSE, whitelist |-> None, blacklist |-> None,
              history |-> FALSE]
    /\ pc = "exit"
    /\ cpc = "idle"
    /\ ret = "exit"
    /\ arg = [mac |-> None, permanent |-> FALSE]
    /\ attempt = 0
    /\ success = FALSE
    /\ last_error = OkRes
    /\ card = NoCard
    /\ new_mac = None
    /\ old_mac = None
    /\ result = OkRes
    /\ cm_result = OkRes
    /\ iface = [bytes |-> FactoryBytes, up |-> TRUE]
    /\ service = "running"
    /\ baseline = None
    /\ persisted = None
    /\ filter = [whitelist |-> {}, blacklist |-> {}]
    /\ log = <<>>
    /\ calls = <<>>
    /\ ops = <<>>
    /\ lastRes = OkRes
    /\ readBack = None
    /\ inv = 1
    /\ rules = NoRules
    /\ inserted = <<>>
    /\ applied = NotApplied
    /\ argv = cli
    /\ store_file = NoRules
    /\ managers = [p \in Procs |-> NoManager]
    /\ racers = [p \in Procs |-> NoRacer]

NextLib ==
    \/ AddRule
    \/ RemoveRule
    \/ ApplyIsRuleActive
    \/ SelectOverride

SpecLib == InitLib /\ [][NextLib]_vars

\* the 6-byte values address texts are written from
ParseBytes == {FactoryBytes, BytesA, BytesB}

\* texts MacAddress::parse is given: the shapes of each value, and texts with
\* 11 and 13 digits, a letter that is no hex digit, two separator families,
\* '+' signs, a two-byte character on and off a pair boundary, nothing
ParseInputs ==
    UNION {Shapes(b) : b \in ParseBytes}
    \cup UNION {{ SubSeq(Joined(b, <<>>, FALSE), 1, 11),
                   Joined(b, <<>>, FALSE) \o <<"0">>,
                   SubSeq(Joined(b, <<":">>, FALSE), 1, 16) \o <<"g">>,
                   Hex2(b[1]) \o <<":">> \o Hex2(b[2]) \o <<"-">> \o Hex2(b[3]) \o <<":">>
                       \o Hex2(b[4]) \o <<":">> \o Hex2(b[5]) \o <<":">> \o Hex2(b[6]),
                   <<TwoByteChar>> \o SubSeq(Joined(b, <<>>, FALSE), 1, 10),
                   <<"a", TwoByteChar>> \o SubSeq(Joined(b, <<>>, FALSE), 1, 9) }
                 : b \in ParseBytes}
    \cup { <<"+","a","+","b","+","c","+","d","+","e","+","f">>, <<>> }

\* MacAddress::parse on a text
ApplyParse ==
    \E mac_str \in ParseInputs :
        /\ Applied("parse", [text |-> mac_str], parse(mac_str))
        /\ UNCHANGED <<ctlVars, procVars, inv, rules, inserted>>

\* as_string on a parsed address, and parse on what it printed
ApplyAsString ==
    \E mac_str \in {t \in ParseInputs : parse(t).ok} :
        LET m == parse(mac_str).mac IN
        /\ Applied("as_string", [text |-> mac_str, mac |-> m],
                   [text |-> as_string(m), again |-> parse(as_string(m))])
        /\ UNCHANGED <<ctlVars, procVars, inv, rules, inserted>>

\* generate_random_mac for each first byte the random source can deliver
ApplyGenerateRandomMac ==
    \E vendor_prefix \in {None, PrefixA}, d \in RngDraws :
      \E first \in {f \in 0..255 : vendor_prefix = None \/ f = d[1]} :
        LET rnd == [d EXCEPT ![1] = first] IN
        /\ Applied("generate_random_mac", [vendor_prefix |-> vendor_prefix, rnd |-> rnd],
                   generate_random_mac(vendor_prefix, rnd))
        /\ UNCHANGED <<ctlVars, procVars, inv, rules, inserted>>

\* the functions of the facade on their own
NextFn ==
    \/ ApplyExecuteCommand
    \/ ApplyVerifyMacChange

SpecFn == InitLib /\ [][NextFn]_vars

(***************************************************************************)
(* Two processes on one rule file                                          *)
(***************************************************************************)
\* the rules the processes add: two with different keys and one whose key
\* is that of the second
StoreRules ==
    { AppRule(<<"a">>, <<"c">>, MacTextA, NoSchedule, TRUE),
      AppRule(<<"a">>, <<"b", ":", "c">>, MacTextA, NoSchedule, TRUE),
      AppRule(<<"a", ":", "b">>, <<"c">>, MacTextB, NoSchedule, TRUE) }

\* load_rules: the map read from the file (empty when there is no file)
load_rules(file) == file

\* mutant: the file is read again and the map is merged into it
save_rules_Merge(file, map) ==
    [k \in DOMAIN file \cup DOMAIN map |-> IF k \in DOMAIN map THEN map[k] ELSE file[k]]

\* save_rules: the file is written anew from the map in memory
save_rules(file, map) == map

\* RuleManager::new in a process: the file is loaded once
PNew ==
    \E p \in Procs :
        /\ ~managers[p].started
        /\ managers' = [managers EXCEPT ![p] =
                            [started |-> TRUE, rules |-> load_rules(store_file),
                             saved |-> FALSE]]
        /\ Applied("new", [proc |-> p], OkRes)
        /\ UNCHANGED <<ctlVars, argv, racers, inv, rules, inserted, store_file>>

\* add_rule in a process: its map is changed, then the file is written
PAddRule ==
    \E p \in Procs, rule \in StoreRules, wr \in StoreOutcomes :
        LET key == RuleKey(rule.app_name, rule.interface)
            map == insert(managers[p].rules, key, rule) IN
        /\ managers[p].started
        /\ Cardinality(DOMAIN map) <= MaxRules
        /\ managers' = [managers EXCEPT ![p] =
                            [started |-> TRUE, rules |-> map, saved |-> wr = "ok"]]
        /\ store_file' = IF wr = "ok" THEN save_rules(store_file, map) ELSE store_file
        /\ Applied("add_rule", [proc |-> p, rule |-> rule],
                   IF wr = "fail" THEN StoreErr ELSE OkRes)
        /\ UNCHANGED <<ctlVars, argv, racers, inv, rules, inserted>>

\* remove_rule in a process
PRemoveRule ==
    \E p \in Procs, rule \in StoreRules, wr \in StoreOutcomes :
        LET key == RuleKey(rule.app_name, rule.interface)
            map == remove(managers[p].rules, key) IN
        /\ managers[p].started
        /\ managers' = [managers EXCEPT ![p] =
                            [started |-> TRUE, rules |-> map, saved |-> wr = "ok"]]
        /\ store_file' = IF wr = "ok" THEN save_rules(store_file, map) ELSE store_file
        /\ Applied("remove_rule",
                   [proc |-> p, app_name |-> rule.app_name, interface |-> rule.interface],
                   IF wr = "fail" THEN StoreErr ELSE OkRes)
        /\ UNCHANGED <<ctlVars, argv, racers, inv, rules, inserted>>

NextStore == PNew \/ PAddRule \/ PRemoveRule

SpecStore == InitLib /\ [][NextStore]_vars

(***************************************************************************)
(* Two change_mac calls on one interface                                   *)
(***************************************************************************)
\* the addresses the two calls ask for
RaceMacs == {MacTextA, MacTextB, Joined(FactoryBytes, <<":">>, FALSE)}

Racer(cpc_, mac, readBack_, result_) ==
    [cpc |-> cpc_, mac |-> mac, readBack |-> readBack_, result |-> result_]

\* the call of process p moves on to its next step
RGoto(p, step) == racers' = [racers EXCEPT ![p].cpc = step]

\* check_permissions and the lookups before the first command
RCheckPermissions ==
    \E p \in Procs :
        /\ racers[p].cpc = "check_permissions"
        /\ check_permissions(host) = OkRes
        /\ RGoto(p, "link_down")
        /\ UNCHANGED <<iface, persisted>>
        /\ UNCHANGED <<host, cli, pc, cpc, ret, arg, attempt, success, last_error, card,
                       new_mac, old_mac, result, cm_result, service, baseline,
                       filter, log, calls, ops, lastRes, readBack>>
        /\ UNCHANGED <<inv, rules, inserted, applied, argv, store_file, managers>>

\* link-down, the command succeeding
RLinkDown ==
    \E p \in Procs :
        /\ racers[p].cpc = "link_down"
        /\ iface' = [iface EXCEPT !.up = FALSE]
        /\ RGoto(p, "set_address")
        /\ UNCHANGED persisted
        /\ UNCHANGED <<host, cli, pc, cpc, ret, arg, attempt, success, last_error, card,
                       new_mac, old_mac, result, cm_result, service, baseline,
                       filter, log, calls, ops, lastRes, readBack>>
        /\ UNCHANGED <<inv, rules, inserted, applied, argv, store_file, managers>>

\* set-address, the command or the registry write succeeding
RSetAddress ==
    \E p \in Procs :
        /\ racers[p].cpc = "set_address"
        /\ iface' = IF host.platform = "linux"
                    THEN [iface EXCEPT !.bytes = BytesOfText(racers[p].mac)]
                    ELSE iface
        /\ persisted' = IF host.platform = "windows" THEN cleaned_mac(racers[p].mac)
                        ELSE persisted
        /\ RGoto(p, "link_up")
        /\ UNCHANGED <<host, cli, pc, cpc, ret, arg, attempt, success, last_error, card,
                       new_mac, old_mac, result, cm_result, service, baseline,
                       filter, log, calls, ops, lastRes, readBack>>
        /\ UNCHANGED <<inv, rules, inserted, applied, argv, store_file, managers>>

\* link-up, the command succeeding; on windows the driver takes the registry
\* value or ignores it
RLinkUp ==
    \E p \in Procs :
        /\ racers[p].cpc = "link_up"
        /\ \E b \in {iface.bytes} \cup
                     (IF host.platform = "windows" /\ persisted # None
                      THEN {BytesOfClean(persisted)} ELSE {}) :
               iface' = [bytes |-> b, up |-> TRUE]
        /\ RGoto(p, "verify")
        /\ UNCHANGED persisted
        /\ UNCHANGED <<host, cli, pc, cpc, ret, arg, attempt, success, last_error, card,
                       new_mac, old_mac, result, cm_result, service, baseline,
                       filter, log, calls, ops, lastRes, readBack>>
        /\ UNCHANGED <<inv, rules, inserted, applied, argv, store_file, managers>>

\* verify_mac_change after the wait, the read succeeding
RVerify ==
    \E p \in Procs :
        /\ racers[p].cpc = "verify"
        /\ racers' = [racers EXCEPT ![p] =
                          Racer("done", racers[p].mac, CurrentText(host, iface.bytes),
                                verify_mac_change(host, racers[p].mac,
                                                  CurrentText(host, iface.bytes)))]
        /\ UNCHANGED <<iface, persisted>>
        /\ UNCHANGED <<host, cli, pc, cpc, ret, arg, attempt, success, last_error, card,
                       new_mac, old_mac, result, cm_result, service, baseline,
                       filter, log, calls, ops, lastRes, readBack>>
        /\ UNCHANGED <<inv, rules, inserted, applied, argv, store_file, managers>>

\* two elevated calls for different addresses have been entered
InitRace ==
    /\ host \in {h \in Hosts : h.elevated /\ h.ifKind = "ether" /\ h.ip_found
                               /\ h.adapter = "ok" /\ h.geo = None}
    /\ cli = [mode |-> "restore", mac |-> None, permanent |-> FALSE, vendor |-> None,
              spoof_location |-> FALSE, whitelist |-> None, blacklist |-> None,
              history |-> FALSE]
    /\ pc = "exit"
    /\ cpc = "idle"
    /\ ret = "exit"
    /\ arg = [mac |-> None, permanent |-> FALSE]
    /\ attempt = 0
    /\ success = FALSE
    /\ last_error = OkRes
    /\ card = NoCard
    /\ new_mac = None
    /\ old_mac = None
    /\ result = OkRes
    /\ cm_result = OkRes
    /\ iface = [bytes |-> FactoryBytes, up |-> TRUE]
    /\ service = "running"
    /\ baseline = None
    /\ persisted = None
    /\ filter = [whitelist |-> {}, blacklist |-> {}]
    /\ log = <<>>
    /\ calls = <<>>
    /\ ops = <<>>
    /\ lastRes = OkRes
    /\ readBack = None
    /\ inv = 1
    /\ rules = NoRules
    /\ inserted = <<>>
    /\ applied = NotApplied
    /\ argv = cli
    /\ store_file = NoRules
    /\ managers = [p \in Procs |-> NoManager]
    /\ racers \in {r \in [Procs -> {Racer("check_permissions", m, None, NoRacer.result)
                                      : m \in RaceMacs}] :
                      r["p"].mac # r["q"].mac}

NextRace == RCheckPermissions \/ RLinkDown \/ RSetAddress \/ RLinkUp \/ RVerify

SpecRace == InitRace /\ [][NextRace]_vars

(***************************************************************************)
(* The filter on its own                                                   *)
(***************************************************************************)
\* prefixes given to add_to_whitelist / add_to_blacklist, and addresses
\* that pass is_valid_mac_format
FilterPrefixes == {to_lowercase(PrefixA), <<"0","2","-","A","A","-","B","B">>, PrefixB}
FilterMacs ==
    {m \in {Joined(BytesA, sep, u) : sep \in {<<":">>, <<"-">>}, u \in BOOLEAN}
            \cup {Joined(BytesB, <<":">>, FALSE)} : is_valid_mac_format(m)}

\* add_to_whitelist / add_to_blacklist on the filter in memory, then the save
ApplyAddToWhitelist ==
    \E prefix \in FilterPrefixes, wr \in StoreOutcomes :
        /\ filter' = add_to_whitelist(filter, prefix)
        /\ Applied("add_to_whitelist", [prefix |-> prefix],
                   IF wr = "fail" THEN StoreErr ELSE OkRes)
        /\ UNCHANGED <<host, cli, pc, cpc, ret, arg, attempt, success, last_error, card,
                       new_mac, old_mac, result, cm_result, iface, service, baseline,
                       persisted, log, calls, ops, lastRes, readBack>>
        /\ UNCHANGED <<procVars, inv, rules, inserted>>

ApplyAddToBlacklist ==
    \E prefix \in FilterPrefixes, wr \in StoreOutcomes :
        /\ filter' = add_to_blacklist(filter, prefix)
        /\ Applied("add_to_blacklist", [prefix |-> prefix],
                   IF wr = "fail" THEN StoreErr ELSE OkRes)
        /\ UNCHANGED <<host, cli, pc, cpc, ret, arg, attempt, success, last_error, card,
                       new_mac, old_mac, result, cm_result, iface, service, baseline,
                       persisted, log, calls, ops, lastRes, readBack>>
        /\ UNCHANGED <<procVars, inv, rules, inserted>>

\* is_allowed asked for two addresses
ApplyIsAllowed ==
    \E mac \in FilterMacs, other \in FilterMacs :
        /\ Applied("is_allowed", [mac |-> mac, other |-> other],
                   [mac |-> is_allowed(filter, mac), other |-> is_allowed(filter, other)])
        /\ UNCHANGED <<ctlVars, procVars, inv, rules, inserted>>

NextFilter == ApplyAddToWhitelist \/ ApplyAddToBlacklist \/ ApplyIsAllowed

SpecFilter == InitLib /\ [][NextFilter]_vars

\* the functions of mac.rs on their own
NextMac ==
    \/ ApplyParse
    \/ ApplyAsString
    \/ ApplyGenerateRandomMac

SpecMac == InitLib /\ [][NextMac]_vars

(***************************************************************************)
(* Properties                                                              *)
(***************************************************************************)
\* a change_mac call has been made and has returned
Returned == cpc = "idle" /\ calls # <<>>

Count(name) == Cardinality({i \in DOMAIN ops : ops[i].op = name})
Issued(name) == \E i \in DOMAIN ops : ops[i].op = name
IssuedOk(name) == \E i \in DOMAIN ops : ops[i].op = name /\ ops[i].ok
DownFailures == Cardinality({i \in DOMAIN ops : ops[i].op = "down" /\ ~ops[i].ok})

\* C1: the orchestrator is never called with a target MAC that is_allowed
\* rejects (the verdict comes before the first call), and no link-down,
\* set-address or link-up is issued for a denied MAC.
C1_DeniedMacNeverReachesOrchestrator ==
    \A i \in DOMAIN calls :
        calls[i].at # "restore" =>
            /\ calls[i].allowed
            /\ (i = Len(calls) /\ ~is_allowed(filter, calls[i].mac)) =>
                   ~Issued("down") /\ ~Issued("set") /\ ~Issued("up")

\* C2: change returns Done only if the address read back after link-up is
\* the requested one; once an address has been read back, change returns
\* Done (the bytes are equal) or Aborted(ValidationFailed) carrying the
\* expected and the read value, and a differing address is never Done.
C2_DoneOnlyIfReadBackMatches ==
    Returned =>
        /\ cm_result.kind = "Ok" =>
               readBack # None /\ BytesOfText(readBack) = BytesOfText(arg.mac)
        /\ (readBack # None /\ cm_result.kind # "Ok") =>
               /\ cm_result.kind = "ValidationFailed"
               /\ BytesOfText(cm_result.expected) = BytesOfText(arg.mac)
               /\ BytesOfText(cm_result.got) = BytesOfText(readBack)
        /\ (readBack # None /\ BytesOfText(readBack) # BytesOfText(arg.mac)) =>
               cm_result.kind = "ValidationFailed"

\* C2 witness: a call that read back another address and was aborted
C2_Witness ==
    /\ Returned
    /\ readBack # None
    /\ BytesOfText(readBack) # BytesOfText(arg.mac)
    /\ cm_result.kind = "ValidationFailed"
    /\ cm_result.got = readBack

\* what C3 says of a call whose link-down failed on all 3 attempts, but for
\* the kind of the error
C3_Shape ==
    /\ Count("down") = 3
    /\ Len(ops) = Count("stop") + 3
    /\ ~Issued("set") /\ ~Issued("up") /\ ~Issued("persist") /\ ~Issued("read")
    /\ cm_result = lastRes
    /\ cm_result.kind # "Ok"

C4_RetriedLinkDownThenDone ==
    ( /\ Returned
      /\ host.elevated
      /\ host.ifKind \notin {"absent", "loopback"}
      /\ IssuedOk("down")
      /\ \A i \in DOMAIN ops : ops[i].op \in {"set", "up", "persist", "read"} => ops[i].ok
      /\ readBack # None
      /\ BytesOfText(readBack) = BytesOfText(arg.mac) )
    => /\ cm_result.kind = "Ok"
       /\ iface.bytes = BytesOfText(arg.mac)
       /\ Count("down") = DownFailures + 1
       /\ Count("down") = attempt
       /\ DownFailures \in 0..2
       /\ \A i \in DOMAIN ops :
            (ops[i].op = "down" /\ ops[i].ok) =>
                \A j \in DOMAIN ops : ops[j].op = "down" => j <= i

\* C4 witness: Done after link-down failed twice and succeeded on try 3
C4_Witness ==
    /\ Returned
    /\ cm_result.kind = "Ok"
    /\ DownFailures = 2
    /\ Count("down") = 3
    /\ iface.bytes = BytesOfText(arg.mac)

\* what C5 says but for the kind of the error: set-address at most once and
\* only after a successful link-down, link-up at most once and only after
\* a successful set-address, and a failure of either ends the call at once
\* with that step's error
C5_Shape ==
    /\ Count("set") <= 1
    /\ Count("up") <= 1
    /\ \A i \in DOMAIN ops :
         /\ ops[i].op = "set" =>
                \E j \in 1..(i - 1) : ops[j].op = "down" /\ ops[j].ok
         /\ ops[i].op = "up" =>
                \E j \in 1..(i - 1) : ops[j].op = "set" /\ ops[j].ok
         /\ (ops[i].op \in {"set", "up"} /\ ~ops[i].ok) =>
                /\ i = Len(ops)
                /\ cpc = "idle"
                /\ cm_result = lastRes
                /\ cm_result.kind # "Ok"

\* whether the call has ended on a failed set-address or link-up
FailedSetOrUp ==
    ops # <<>> /\ ops[Len(ops)].op \in {"set", "up"} /\ ~ops[Len(ops)].ok

C6_NotElevatedDeniedFirst ==
    [][~host.elevated =>
          /\ pc = "check_privileges"
          /\ pc' = "exit"
          /\ result'.kind = "PermissionDenied"
          /\ UNCHANGED <<iface, service, baseline, persisted, filter, log, calls, ops>>]_vars

\* C6 witness: an invocation ended with PermissionDenied
C6_Witness ==
    /\ ~host.elevated
    /\ pc = "exit"
    /\ result.kind = "PermissionDenied"
    /\ calls = <<>>

C8_PointToPointRejected ==
    (pc \notin {"check_privileges", "verify_interface"} /\ ~card.supports_mac_change) =>
        /\ ~Issued("down") /\ ~Issued("set")
        /\ pc = "exit" => result.kind # "Ok"

\* an operation that wrote a persistent artifact or setting: the udev rule,
\* or on windows the NetworkAddress registry value
PersistentWrite(o) ==
    o.ok /\ (o.op = "persist" \/ (host.platform = "windows" /\ o.op = "set"))

\* C9: a returned call has written a persistent artifact or setting only if
\* permanent was requested and the verification succeeded.
C9_PersistOnlyWhenPermanentAndVerified ==
    (Returned /\ \E i \in DOMAIN ops : PersistentWrite(ops[i])) =>
        arg.permanent /\ cm_result.kind = "Ok"

\* C10: what change returns is a function of the results of the steps other
\* than the service stop and restart: the error of the step that failed, or
\* the verdict on the address read back.
C10_ServiceFailureNeverChangesOutcome ==
    (Returned /\ ops # <<>>) =>
        cm_result = IF lastRes.kind # "Ok" THEN lastRes
                    ELSE verify_mac_change(host, arg.mac, readBack)

\* C10 witness: Done although both the stop and the restart failed
C10_Witness ==
    /\ Returned
    /\ cm_result.kind = "Ok"
    /\ \E i \in DOMAIN ops : ops[i].op = "stop" /\ ~ops[i].ok
    /\ \E i \in DOMAIN ops : ops[i].op = "start" /\ ~ops[i].ok

\* C11: whenever the requested text and the text read back denote the same
\* six bytes, verify_mac_change succeeds, whatever the case and the separator
\* family (colon, hyphen, dot, plain) of the two texts.
C11_VerificationComparesBytesOnly ==
    (applied.fn = "verify_mac_change"
       /\ BytesOfText(applied.in.expected) = BytesOfText(applied.in.current)) =>
        applied.out.kind = "Ok"

\* the position of the operation that made the call return an error
FailedAt(i) == i \in DOMAIN ops /\ ~ops[i].ok /\ ops[i].op \in {"set", "up", "persist", "read"}

\* the orchestrator issued nothing after the operation that failed, and
\* issued set-address and link-up at most once
NoCompensation ==
    /\ Count("set") <= 1
    /\ Count("up") <= 1
    /\ \A i \in DOMAIN ops : FailedAt(i) => i = Len(ops)
    /\ (DownFailures = Count("down") /\ Count("down") > 0) =>
           ops[Len(ops)].op = "down"

\* C12 (as stated): after change returns Aborted the orchestrator has issued
\* no compensating operation, an abort after a successful set-address leaves
\* the interface holding the requested address, and an abort at set-address
\* leaves the link down.
C12_NoCompensationAddressStays ==
    (Returned /\ cm_result.kind # "Ok") =>
        /\ NoCompensation
        /\ IssuedOk("set") => iface.bytes = BytesOfText(arg.mac)
        /\ (Issued("set") /\ ~IssuedOk("set")) => ~iface.up

\* C12 (amended): after change returns Aborted the orchestrator has issued
\* no compensating operation; an abort at link-up after a successful
\* set-address leaves the link down with the requested address on the
\* interface (linux) or in the adapter's registry setting (windows), and an
\* abort at set-address leaves the link down.
C12_NoCompensationAfterAbort ==
    (Returned /\ cm_result.kind # "Ok") =>
        /\ NoCompensation
        /\ (IssuedOk("set") /\ Issued("up") /\ ~IssuedOk("up")) =>
              /\ ~iface.up
              /\ host.platform = "linux" => iface.bytes = BytesOfText(arg.mac)
              /\ host.platform = "windows" => persisted = cleaned_mac(arg.mac)
        /\ (Issued("set") /\ ~IssuedOk("set")) => ~iface.up

\* an abort at link-up after a successful set-address
C12_Witness ==
    /\ Returned /\ cm_result.kind # "Ok"
    /\ IssuedOk("set") /\ Issued("up") /\ ~IssuedOk("up")
    /\ iface.bytes # FactoryBytes

\* C13: the error of a command that ran and failed carries everything the
\* command printed, its stderr and its stdout.
C13_FatalErrorCarriesFullOutput ==
    (applied.fn = "execute_command" /\ applied.in.st = "exit") =>
        /\ applied.out.kind = "SystemError"
        /\ applied.in.stderr # 0 =>
              applied.out.from \in {"stderr", "both"} /\ applied.out.text = applied.in.stderr
        /\ applied.in.stdout # 0 =>
              applied.out.from \in {"stdout", "both"}

\* C14: over any sequence of invocations the baseline is written only when
\* none is stored and is never overwritten, so a stored baseline always
\* equals the address the interface had before the tool's first modification.
C14_BaselineIsPreModificationAddress ==
    [][/\ baseline # None => baseline' = baseline
       /\ baseline' # None => BytesOfText(baseline') = FactoryBytes]_vars

\* the stored rules that are for the pair (app_name, interface)
RulesOf(app_name, interface) ==
    {k \in DOMAIN rules : rules[k].app_name = app_name /\ rules[k].interface = interface}

\* C15: after any sequence of add_rule and remove_rule the store holds at
\* most one rule for each (app_name, interface) pair, and add_rule for a pair
\* that has a rule replaces it: the rule just added is the one stored.
C15_OneRulePerPair ==
    /\ \A app_name \in AppNames, interface \in Interfaces :
           Cardinality(RulesOf(app_name, interface)) <= 1
    /\ applied.fn = "add_rule" =>
           RulesOf(applied.in.rule.app_name, applied.in.rule.interface) =
               {RuleKey(applied.in.rule.app_name, applied.in.rule.interface)}
    /\ applied.fn = "add_rule" =>
           rules[RuleKey(applied.in.rule.app_name, applied.in.rule.interface)] =
               applied.in.rule

\* add_rule has just replaced the rule of the pair that came in first
C15_Witness ==
    /\ applied.fn = "add_rule"
    /\ Len(inserted) = 2
    /\ inserted[1] = RuleKey(applied.in.rule.app_name, applied.in.rule.interface)
    /\ rules[inserted[1]] = applied.in.rule

\* C16: is_rule_active returns false for every rule with enabled = false,
\* whatever its schedule and the time, and true at every instant for an
\* enabled rule without a schedule.
C16_DisabledNeverEnabledUnscheduledAlways ==
    applied.fn = "is_rule_active" =>
        /\ ~applied.in.rule.enabled => applied.out = Returns(FALSE)
        /\ (applied.in.rule.enabled /\ ~applied.in.rule.schedule.some) =>
               applied.out = Returns(TRUE)

\* a disabled rule whose schedule lists the day and holds a start time that
\* is no HH:MM text
C16_Witness ==
    /\ applied.fn = "is_rule_active"
    /\ ~applied.in.rule.enabled
    /\ applied.in.rule.schedule = Unparsed
    /\ applied.in.now.day = Monday
    /\ applied.out = Returns(FALSE)

C18_OvernightNeverActive ==
    (applied.fn = "is_rule_active" /\ applied.in.rule.schedule.some
       /\ parse_from_str(applied.in.rule.schedule.end_time) >= 0
       /\ parse_from_str(applied.in.rule.schedule.start_time) >
              parse_from_str(applied.in.rule.schedule.end_time)) =>
        applied.out = Returns(FALSE)

\* the overnight rule, enabled, asked on its day at 23:00
C18_Witness ==
    /\ applied.fn = "is_rule_active"
    /\ applied.in.rule.enabled
    /\ applied.in.rule.schedule = Overnight
    /\ applied.in.now = Instant(Monday, 23, 0, 0)
    /\ applied.out = Returns(FALSE)

\* C19: select_override scans the rules in insertion order: what it returns
\* is what the scan of the rules in the order they were added returns, also
\* when two rules match at once.
C19_SelectsFirstInInsertionOrder ==
    applied.fn = "select_override" =>
        applied.out = select_override(list_rules(rules, inserted), applied.in.interface,
                                      applied.in.running, applied.in.now)

\* the stored rules that are for the interface and whose app is running
Matching(interface, running) ==
    {k \in DOMAIN rules : rules[k].interface = interface /\ rules[k].app_name \in running}

\* a rule that cannot be active at the instant: it is disabled, or its
\* schedule does not list the weekday, or its schedule is the overnight one
Inactive(rule, now) ==
    \/ ~rule.enabled
    \/ /\ rule.schedule.some
       /\ \A i \in DOMAIN rule.schedule.days :
              to_lowercase(rule.schedule.days[i]) # to_lowercase(now.day)
    \/ rule.schedule = Overnight

\* C20: select_override returns None when no rule stored for the interface
\* has its app running, and when every such rule is inactive; a MAC it
\* returns is that of an enabled rule of that interface whose app is running.
C20_NoneWithoutActiveMatch ==
    applied.fn = "select_override" =>
        /\ Matching(applied.in.interface, applied.in.running) = {} =>
               applied.out = NoOverride
        /\ (\A k \in Matching(applied.in.interface, applied.in.running) :
                Inactive(rules[k], applied.in.now)) =>
               applied.out = NoOverride
        /\ applied.out.some =>
               \E k \in Matching(applied.in.interface, applied.in.running) :
                  /\ rules[k].mac_address = applied.out.mac
                  /\ ~Inactive(rules[k], applied.in.now)

\* None is returned while a rule of another interface has its app running
\* and is active, and the only matching rule of the interface is inactive
C20_Witness ==
    /\ applied.fn = "select_override"
    /\ applied.out = NoOverride
    /\ Matching(applied.in.interface, applied.in.running) # {}
    /\ \E k \in DOMAIN rules :
          /\ rules[k].interface # applied.in.interface
          /\ rules[k].app_name \in applied.in.running
          /\ rules[k].enabled
          /\ ~rules[k].schedule.some

\* a text in exactly one of the four shapes: six colon-separated pairs, six
\* hyphen-separated pairs, three dot-separated groups of four, twelve digits
FourShapes(t) ==
    \/ /\ Len(t) = 17
       /\ \E sep \in {":", "-"} :
             \A i \in 1..17 : IF i % 3 = 0 THEN t[i] = sep ELSE IsHexChar(t[i])
    \/ /\ Len(t) = 14
       /\ \A i \in 1..14 : IF i % 5 = 0 THEN t[i] = "." ELSE IsHexChar(t[i])
    \/ /\ Len(t) = 12
       /\ \A i \in 1..12 : IsHexChar(t[i])

\* C21: parse returns InvalidFormat for every text that is not exactly one
\* of the four shapes: 11 or 13 digits, a non-hex character, two separator
\* families in one text.
C21_ParseRejectsOtherShapes ==
    (applied.fn = "parse" /\ ~FourShapes(applied.in.text)) =>
        applied.out = ParseErr("InvalidFormat")

\* C22: for every 6-byte value written in any of the four shapes parse
\* succeeds with those bytes, and parsing what as_string prints for the
\* parsed address succeeds with the same bytes.
C22_ParseFormatParseKeepsBytes ==
    \A b \in ParseBytes :
        /\ (applied.fn = "parse" /\ FourShapes(applied.in.text)
              /\ applied.in.text \in Shapes(b)) =>
               applied.out.ok /\ applied.out.mac.bytes = b
        /\ (applied.fn = "as_string" /\ FourShapes(applied.in.text)
              /\ applied.in.text \in Shapes(b)) =>
               applied.out.again.ok /\ applied.out.again.mac.bytes = b

\* an address with a byte below 16, given as three dot-separated groups, has
\* been printed and parsed again
C22_Witness ==
    /\ applied.fn = "as_string"
    /\ applied.in.text = DotForm(FactoryBytes, TRUE)
    /\ applied.out.again.ok
    /\ applied.out.again.mac.bytes = FactoryBytes

\* C23: for a lower-case text s in any of the four shapes, as_string of the
\* parsed address is s again.
C23_FormatReproducesInput ==
    (applied.fn = "as_string" /\ FourShapes(applied.in.text)
       /\ applied.in.text = to_lowercase(applied.in.text)) =>
        applied.out.text = applied.in.text

\* C23 (amended): as_string prints lower-case zero-padded pairs joined by the
\* separator of the detected family: for a lower-case text s of six pairs
\* joined by ':', '-' or '.', or of twelve digits, it prints s again; for
\* three dot-separated groups of four it prints six dot-separated pairs.
C23_FormatPrintsPairsOfDetectedFamily ==
    \A b \in ParseBytes :
        applied.fn = "as_string" =>
            /\ applied.in.text \in {Joined(b, <<":">>, FALSE), Joined(b, <<"-">>, FALSE),
                                    Joined(b, <<".">>, FALSE), Joined(b, <<>>, FALSE)} =>
                   applied.out.text = applied.in.text
            /\ applied.in.text = DotForm(b, FALSE) =>
                   applied.out.text = Joined(b, <<".">>, FALSE)

\* three lower-case dot-separated groups of four have been parsed and printed
C23_Witness ==
    /\ applied.fn = "as_string"
    /\ applied.in.text = DotForm(BytesA, FALSE)
    /\ applied.out.text = Joined(BytesA, <<".">>, FALSE)

\* C24: generate_random_mac without a vendor prefix yields a first byte with
\* bit 1 set and bit 0 clear, for every value of the random source.
C24_RandomIsLocalUnicast ==
    (applied.fn = "generate_random_mac" /\ applied.in.vendor_prefix = None) =>
        applied.out.bytes[1] % 4 = 2

\* the random source delivered 0xFD: both bits had to be changed
C24_Witness ==
    /\ applied.fn = "generate_random_mac"
    /\ applied.in.vendor_prefix = None
    /\ applied.in.rnd[1] = 253
    /\ applied.out.bytes[1] = 254

\* C25: on the build without a persistence mechanism an invocation that asks
\* for a permanent change is not refused: every change_mac call it makes is
\* given permanent = false, nothing persistent is written, and from the
\* first call on (the success message, the history entry) the invocation
\* treats the change as a temporary one.
C25_PermanentDowngradedWithoutMechanism ==
    (host.platform = "macos" /\ argv.permanent) =>
        /\ \A i \in DOMAIN calls : ~calls[i].permanent
        /\ \A i \in DOMAIN log : ~log[i].permanent
        /\ pc \in {"post_change", "new_mac_2", "filter", "old_mac", "change_2", "log"} =>
               ~cli.permanent
        /\ persisted = None
        /\ result.kind # "UnsupportedPlatform"

\* permanent was asked for, both calls were made and the invocation ended Ok
C25_Witness ==
    /\ host.platform = "macos"
    /\ argv.permanent
    /\ pc = "exit"
    /\ result = OkRes
    /\ Len(calls) = 2
    /\ Len(log) = 1
    /\ iface.bytes = BytesOfText(new_mac)

\* the link-down, set-address, link-up and read operations of the call
FacadeOps == SelectSeq(ops, LAMBDA o : o.op \in {"down", "set", "up", "read"})

\* C26: the orchestration is the same on every platform: link-down is tried
\* until it succeeds or has failed 3 times, then set-address, link-up and
\* the verification read follow once each, and the call is Aborted at
\* link-down only after the third failed attempt.
C26_SameOrchestrationOnEveryPlatform ==
    (Returned /\ FacadeOps # <<>>) =>
        LET n == Len(FacadeOps) IN
        /\ Count("down") <= max_retries
        /\ Count("set") <= 1 /\ Count("up") <= 1 /\ Count("read") <= 1
        /\ (FacadeOps[n].op = "down" /\ ~FacadeOps[n].ok) => DownFailures = max_retries

\* the pair an add_rule or remove_rule call was made for
OpPair(a) ==
    IF a.fn = "add_rule" THEN <<a.in.rule.app_name, a.in.rule.interface>>
    ELSE <<a.in.app_name, a.in.interface>>

\* C27: add_rule and remove_rule for the pair (a, i) leave what get_rule
\* returns for every other pair as it was, and get_rule(a, i) only returns
\* a rule whose app_name is a and whose interface is i.
C27_AddRemoveChangeOnlyTheirPair ==
    [][applied'.fn \in {"add_rule", "remove_rule"} =>
          \A a \in AppNames, i \in Interfaces :
             /\ <<a, i>> # OpPair(applied') =>
                    get_rule(rules', a, i) = get_rule(rules, a, i)
             /\ get_rule(rules', a, i) # NoRule =>
                    /\ get_rule(rules', a, i).app_name = a
                    /\ get_rule(rules', a, i).interface = i]_vars

\* a restore invocation that ended before it looked for the baseline
EndedBeforeRestore ==
    /\ calls = <<>>
    /\ result.kind # "Ok"
    /\ result.from \in {"not elevated", "not found", "loopback", "spawn", "stderr", "store"}

\* what holds of a restore invocation in every state
RestoreShape ==
    /\ Len(calls) <= 1
    /\ calls # <<>> =>
          /\ baseline # None
          /\ calls[1].mac = baseline
          /\ ~calls[1].permanent
    /\ pc = "restored" => Len(calls) = 1
    /\ (pc = "exit" /\ baseline = None) =>
          /\ calls = <<>>
          /\ EndedBeforeRestore \/ result = Err("ValidationFailed", "no original", 0)
    /\ (pc = "exit" /\ baseline # None) =>
          /\ result # Err("ValidationFailed", "no original", 0)
          /\ EndedBeforeRestore \/ Len(calls) = 1

\* C28: a restore invocation calls the orchestrator exactly once, with the
\* stored baseline and permanent = false, and leaves the baseline as it is;
\* with no baseline stored it fails with ValidationFailed and makes no call.
C28_RestoreCallsOnceWithBaseline ==
    [][/\ cli.mode = "restore" => baseline' = baseline
       /\ cli'.mode = "restore" => RestoreShape']_vars

\* the second invocation restored the address the first one had changed
C28_Witness ==
    /\ inv = 2
    /\ cli.mode = "restore"
    /\ pc = "exit"
    /\ result = OkRes
    /\ Len(calls) = 1
    /\ BytesOfText(calls[1].mac) = FactoryBytes
    /\ log # <<>>
    /\ iface.bytes = FactoryBytes

\* C29 (what makes the update get lost): a successful add_rule or remove_rule
\* leaves the file equal to the map in the memory of the process that made
\* the call, whatever another process had written.
C29_FileIsTheMapOfTheLastWriter ==
    (applied.fn \in {"add_rule", "remove_rule"} /\ applied.out = OkRes) =>
        store_file = managers[applied.in.proc].rules

\* C29: both processes loaded the empty file, each added one rule under a
\* key of its own and wrote the file with success, and the file holds only
\* one of the two rules.
C29_Witness ==
    /\ managers["p"].saved /\ managers["q"].saved
    /\ Cardinality(DOMAIN managers["p"].rules) = 1
    /\ Cardinality(DOMAIN managers["q"].rules) = 1
    /\ DOMAIN managers["p"].rules # DOMAIN managers["q"].rules
    /\ applied.fn = "add_rule"
    /\ Cardinality(DOMAIN store_file) = 1

\* C30: two calls for different addresses never both return Done unless the
\* verification read of each saw the address that call had asked for.
C30_BothDoneOnlyIfEachReadItsOwn ==
    (\A p \in Procs : racers[p].cpc = "done" /\ racers[p].result.kind = "Ok") =>
        \A p \in Procs :
            /\ racers[p].readBack # None
            /\ BytesOfText(racers[p].readBack) = BytesOfText(racers[p].mac)

\* C30: every command succeeded, and one call returned ValidationFailed
\* because its verification read the address the other call had set, while
\* the other call returned Done.
C30_Witness ==
    /\ host.platform = "linux"
    /\ racers["p"].cpc = "done"
    /\ racers["p"].result.kind = "ValidationFailed"
    /\ BytesOfText(racers["p"].readBack) = BytesOfText(racers["q"].mac)
    /\ racers["q"].cpc = "done"
    /\ racers["q"].result.kind = "Ok"

\* C31: within one call there are at most max_retries link-down attempts and
\* at most one each of service stop, set-address, link-up, service start,
\* persist and verification read
OpsBounded ==
    /\ Count("down") <= max_retries
    /\ \A name \in {"stop", "set", "up", "start", "persist", "read"} : Count(name) <= 1
    /\ \A i \in DOMAIN ops :
          ops[i].op \in {"stop", "down", "set", "up", "start", "persist", "read"}

\* C31: every change call, whatever the results of its operations, stays
\* within these numbers of operations and returns, with Ok (Done) or with an
\* error (Aborted).
C31_ChangeTerminatesWithBoundedOps ==
    /\ []OpsBounded
    /\ (cpc # "idle") ~> (cpc = "idle" /\ cm_result.kind # "none")

\* C31: a call has returned after the longest run of operations: two failed
\* link-down attempts and a third that succeeded, and every other operation
\* once.
C31_Witness ==
    /\ cpc = "idle"
    /\ calls # <<>>
    /\ Count("down") = max_retries
    /\ \A name \in {"stop", "set", "up", "start", "persist", "read"} : Count(name) = 1

\* C32: a single non-restore invocation calls the orchestrator at most once,
\* and when it ends successfully the interface holds the address that was
\* announced as changed (the target of the first "Change MAC").
C32_OneCallOneTarget ==
    cli.mode # "restore" =>
        /\ Len(calls) <= 1
        /\ (pc = "exit" /\ result = OkRes /\ calls # <<>>) =>
               iface.bytes = BytesOfText(calls[1].mac)

\* C33: the history entry of a successful change has as old_mac the address
\* the interface had before the invocation modified it (the factory address
\* here) and as new_mac the address the interface holds at the end; old_mac
\* is read before any orchestrator call of the invocation.
C33_LogRecordsAddressBeforeAndAfter ==
    /\ \A i \in DOMAIN log :
          /\ BytesOfText(log[i].old_mac) = FactoryBytes
          /\ (pc = "exit" /\ result = OkRes) => BytesOfText(log[i].new_mac) = iface.bytes
    /\ old_mac # None => calls = <<>>

\* C34: when change has issued the service stop, it has issued the service
\* start by the time it returns, on every path, also when it returns Aborted.
C34_StoppedServiceIsStartedBeforeReturn ==
    (Returned /\ Issued("stop")) => Issued("start")

\* C35: is_rule_active returns a boolean for every rule add_rule has stored,
\* on any day and at any time: it never panics, also when the schedule
\* times of the rule are no valid HH:MM.
C35_IsRuleActiveNeverPanics ==
    applied.fn = "is_rule_active" => ~applied.out.panicked

\* C36: two MAC strings that denote the same six bytes, differing only in
\* letter case or in the separator, get the same is_allowed verdict.
C36_VerdictDependsOnBytesOnly ==
    (applied.fn = "is_allowed"
       /\ BytesOfText(applied.in.mac) = BytesOfText(applied.in.other)) =>
        applied.out.mac = applied.out.other

====
